---- MODULE Spec2Model ----
(***************************************************************************)
(* SQL CREATE TABLE to Go struct converter (converter.go).                 *)
(*                                                                         *)
(* Texts are TLA+ strings; positions are Go's 0-based byte offsets, so     *)
(* s[i] is Ch(s, i) and s[lo:hi] is Slice(s, lo, hi).  The regular         *)
(* expressions of converter.go are modelled by matchers that compute the   *)
(* leftmost-first match Go's regexp package returns.                       *)
(***************************************************************************)
EXTENDS Integers, Sequences, FiniteSets, TLC

VARIABLES pc, inp, sql, tableName, columnBlock, lines, lineNo, fields, trace, result,
          gen, fn, arg, out, conns, frames, patterns

vars == <<pc, inp, sql, tableName, columnBlock, lines, lineNo, fields, trace, result,
          gen, fn, arg, out, conns, frames, patterns>>

\* a call of ParseSQL in progress
parseVars == <<inp, sql, tableName, columnBlock, lines, lineNo, fields, trace, result>>

\* a function of the package applied on its own: its name, argument and result
applyVars == <<fn, arg, out>>

\* the server: the requests being handled, the local variables of each
\* running handleConvert, and the package-level patterns
httpVars == <<conns, frames, patterns>>

(***************************************************************************)
(* Go string primitives                                                    *)
(***************************************************************************)
Ch(s, i) == SubSeq(s, i + 1, i + 1)

Slice(s, lo, hi) == SubSeq(s, lo + 1, hi)

SliceFrom(s, lo) == SubSeq(s, lo + 1, Len(s))

\* a Go slice expression s[lo:hi] panics unless 0 <= lo <= hi <= len(s)
SliceInRange(s, lo, hi) == 0 <= lo /\ lo <= hi /\ hi <= Len(s)

LowerLetters == "abcdefghijklmnopqrstuvwxyz"

UpperLetters == "ABCDEFGHIJKLMNOPQRSTUVWXYZ"

DigitChars == "0123456789"

CharsOf(s) == {SubSeq(s, i, i) : i \in 1..Len(s)}

LowerSet == CharsOf(LowerLetters)

UpperSet == CharsOf(UpperLetters)

DigitSet == CharsOf(DigitChars)

\* \s of Go's regexp syntax: [\t\n\f\r ]
SpaceSet == {" ", "\t", "\n", "\r", "\f"}

\* \w of Go's regexp syntax, also the class [a-zA-Z0-9_] of tableNameRegex
WordSet == LowerSet \cup UpperSet \cup DigitSet \cup {"_"}

\* SANY's string syntax has no backquote character: the backquote of the
\* SQL texts is written ~ throughout this module
Backquote == "~"

QuoteSet == {Backquote, "\"", "'"}

UpperMap == [c \in LowerSet |->
               LET i == CHOOSE k \in 1..Len(LowerLetters) : SubSeq(LowerLetters, k, k) = c
               IN  SubSeq(UpperLetters, i, i)]

LowerMap == [c \in UpperSet |->
               LET i == CHOOSE k \in 1..Len(UpperLetters) : SubSeq(UpperLetters, k, k) = c
               IN  SubSeq(LowerLetters, i, i)]

ToUpperCh(c) == IF c \in LowerSet THEN UpperMap[c] ELSE c

ToLowerCh(c) == IF c \in UpperSet THEN LowerMap[c] ELSE c

\* The loops of the Go code that walk a whole text are evaluated here by
\* halves or over the set of offsets, which gives the same result as the
\* walk: TLC's evaluation of a recursion as deep as a text is long overflows.
RECURSIVE ToUpper(_)
ToUpper(s) ==
    IF Len(s) = 0 THEN ""
    ELSE IF Len(s) = 1 THEN ToUpperCh(s)
    ELSE ToUpper(SubSeq(s, 1, Len(s) \div 2)) \o ToUpper(SubSeq(s, Len(s) \div 2 + 1, Len(s)))

RECURSIVE ToLower(_)
ToLower(s) ==
    IF Len(s) = 0 THEN ""
    ELSE IF Len(s) = 1 THEN ToLowerCh(s)
    ELSE ToLower(SubSeq(s, 1, Len(s) \div 2)) \o ToLower(SubSeq(s, Len(s) \div 2 + 1, Len(s)))

SetMin(S) == CHOOSE x \in S : \A y \in S : x <= y

SetMax(S) == -SetMin({-x : x \in S})

\* the members of S within lo..hi, in increasing order
RECURSIVE Ascending(_, _, _)
Ascending(S, lo, hi) ==
    IF lo > hi THEN <<>>
    ELSE IF lo = hi THEN (IF lo \in S THEN <<lo>> ELSE <<>>)
    ELSE Ascending(S, lo, (lo + hi) \div 2) \o Ascending(S, (lo + hi) \div 2 + 1, hi)

HasPrefix(s, p) == Len(s) >= Len(p) /\ Slice(s, 0, Len(p)) = p

\* s[i:] starts with p
HasPrefixAt(s, i, p) == i >= 0 /\ i + Len(p) <= Len(s) /\ Slice(s, i, i + Len(p)) = p

\* the offset of the first occurrence of sub at or after offset i, -1 if none
IndexFrom(s, sub, i) ==
    LET hits == {j \in i..(Len(s) - Len(sub)) : Slice(s, j, j + Len(sub)) = sub}
    IN  IF hits = {} THEN -1 ELSE SetMin(hits)

\* strings.Index
Index(s, sub) == IndexFrom(s, sub, 0)

\* strings.Contains
Contains(s, sub) == Index(s, sub) # -1

\* strings.TrimSpace
TrimSpace(s) ==
    LET keep == {i \in 0..(Len(s) - 1) : Ch(s, i) \notin SpaceSet}
    IN  IF keep = {} THEN "" ELSE Slice(s, SetMin(keep), SetMax(keep) + 1)

\* the pieces of s between the offsets of cuts (in increasing order): piece k
\* runs from after cut k-1 to before cut k, the last one to the end of s
Pieces(s, cuts) ==
    [k \in 1..(Len(cuts) + 1) |->
        Slice(s, IF k = 1 THEN 0 ELSE cuts[k - 1] + 1,
                 IF k = Len(cuts) + 1 THEN Len(s) ELSE cuts[k])]

\* strings.Split(s, sep) for a one-character separator
Split(s, sep) ==
    Pieces(s, Ascending({i \in 0..(Len(s) - 1) : Ch(s, i) = sep}, 0, Len(s) - 1))

NonEmpty(str) == str # ""

\* strings.Fields: the maximal runs of non-space characters, in order
Fields(s) ==
    SelectSeq(Pieces(s, Ascending({i \in 0..(Len(s) - 1) : Ch(s, i) \in SpaceSet}, 0, Len(s) - 1)),
              NonEmpty)

\* strings.Join
RECURSIVE Join(_, _)
Join(parts, sep) ==
    IF Len(parts) = 0 THEN ""
    ELSE IF Len(parts) = 1 THEN parts[1]
    ELSE Join(SubSeq(parts, 1, Len(parts) \div 2), sep) \o sep
         \o Join(SubSeq(parts, Len(parts) \div 2 + 1, Len(parts)), sep)

(***************************************************************************)
(* Regular-expression building blocks                                      *)
(***************************************************************************)
\* the literal matched without the (?i) flag: letters must be in upper case
MatchLitNoFold(s, p, lit) ==
    IF p >= 0 /\ p + Len(lit) <= Len(s) /\ Slice(s, p, p + Len(lit)) = lit
    THEN p + Len(lit)
    ELSE -1

\* a literal under (?i) at offset p: the offset after it, or -1
MatchLit(s, p, lit) ==
    IF p >= 0 /\ p + Len(lit) <= Len(s) /\ ToUpper(Slice(s, p, p + Len(lit))) = lit
    THEN p + Len(lit)
    ELSE -1

\* the offset after the longest run of characters of class at offset p
SkipClass(s, p, class) ==
    LET stops == {i \in p..(Len(s) - 1) : Ch(s, i) \notin class}
    IN  IF stops = {} THEN Len(s) ELSE SetMin(stops)

\* \s* at offset p
MatchWS0(s, p) == IF p < 0 THEN -1 ELSE SkipClass(s, p, SpaceSet)

\* \s+ at offset p
MatchWS1(s, p) ==
    IF p >= 0 /\ p < Len(s) /\ Ch(s, p) \in SpaceSet THEN SkipClass(s, p, SpaceSet) ELSE -1

\* the optional quote class of tableNameRegex (backquote, double or single
\* quote, then ?) at offset p
MatchOptQuote(s, p) ==
    IF p < 0 THEN -1
    ELSE IF p < Len(s) /\ Ch(s, p) \in QuoteSet THEN p + 1
    ELSE p

(***************************************************************************)
(* tableNameRegex                                                          *)
(***************************************************************************)
NoMatch == [ok |-> FALSE, name |-> ""]

\* the name part of the pattern without its final \s*\(
MatchNameTailNoParen(s, p) ==
    LET q == MatchOptQuote(s, p)
        r == IF q < 0 THEN -1 ELSE SkipClass(s, q, WordSet)
    IN  IF r > q THEN [ok |-> TRUE, name |-> Slice(s, q, r)] ELSE NoMatch

\* optional quote, ([a-zA-Z0-9_]+), optional quote, \s*\( at offset p
MatchNameTail(s, p) ==
    LET q == MatchOptQuote(s, p)
        r == IF q < 0 THEN -1 ELSE SkipClass(s, q, WordSet)
        t == IF r <= q THEN -1 ELSE MatchOptQuote(s, r)
        u == MatchWS0(s, t)
    IN  IF u >= 0 /\ u < Len(s) /\ Ch(s, u) = "("
        THEN [ok |-> TRUE, name |-> Slice(s, q, r)]
        ELSE NoMatch

\* the whole pattern at offset p; the optional IF NOT EXISTS group is tried
\* first and abandoned when the rest does not match after it
MatchTableNameAt(s, p) ==
    LET a == MatchWS1(s, MatchLit(s, p, "CREATE"))
        d == MatchWS1(s, MatchLit(s, a, "TABLE"))
        e == MatchWS1(s, MatchLit(s, d, "IF"))
        f == MatchWS1(s, MatchLit(s, e, "NOT"))
        g == MatchWS1(s, MatchLit(s, f, "EXISTS"))
    IN  IF d < 0 THEN NoMatch
        ELSE IF g >= 0 /\ MatchNameTail(s, g).ok THEN MatchNameTail(s, g)
        ELSE MatchNameTail(s, d)

\* tableNameRegex.FindStringSubmatch(s): the leftmost match and its group 1
tableNameRegex(s) ==
    LET starts == {p \in 0..(Len(s) - 1) : MatchTableNameAt(s, p).ok}
    IN  IF starts = {} THEN NoMatch ELSE MatchTableNameAt(s, SetMin(starts))

(***************************************************************************)
(* columnBlockRegex                                                        *)
(***************************************************************************)
BlockKeywords == {"ENGINE", "DEFAULT", "AUTO_INCREMENT", "COMMENT", ";"}

\* \)\s*(?:ENGINE|DEFAULT|AUTO_INCREMENT|COMMENT|;|$) at offset q (case-sensitive)
BlockEndAt(s, q) ==
    /\ Ch(s, q) = ")"
    /\ LET u == MatchWS0(s, q + 1)
       IN  u = Len(s) \/ \E k \in BlockKeywords : HasPrefixAt(s, u, k)

\* columnBlockRegex.FindStringSubmatch(s): the match starts at the leftmost
\* "(" that has an accepted ")" at least two characters later, and the
\* greedy [\s\S]+ runs to the last accepted ")"
columnBlockRegex(s) ==
    LET ends   == {q \in 0..(Len(s) - 1) : BlockEndAt(s, q)}
        last   == IF ends = {} THEN -1 ELSE SetMax(ends)
        starts == {p \in 0..(Len(s) - 1) : Ch(s, p) = "(" /\ p + 2 <= last}
    IN  IF starts = {} THEN [ok |-> FALSE, block |-> ""]
        ELSE [ok |-> TRUE, block |-> Slice(s, SetMin(starts) + 1, last)]

(***************************************************************************)
(* typeRegex and notNullRegex                                              *)
(***************************************************************************)
\* the alternation of typeRegex, in its order
TypeKeywords ==
    << "TINYINT", "SMALLINT", "MEDIUMINT", "INT", "INTEGER", "BIGINT", "FLOAT",
       "DOUBLE", "DECIMAL", "NUMERIC", "CHAR", "VARCHAR", "TEXT", "TINYTEXT",
       "MEDIUMTEXT", "LONGTEXT", "DATETIME", "TIMESTAMP", "DATE", "TIME",
       "BOOLEAN", "BOOL", "BLOB", "TINYBLOB", "MEDIUMBLOB", "LONGBLOB", "JSON",
       "ENUM", "SET" >>

\* typeRegex.FindStringSubmatch(s): anchored at offset 0; the first keyword
\* of the alternation that is a prefix wins (the rest of the pattern is
\* optional); group 2 is the text between "(" and the first ")" after it
typeRegex(s) ==
    LET hits == {k \in 1..Len(TypeKeywords) : MatchLit(s, 0, TypeKeywords[k]) >= 0}
    IN  IF hits = {} THEN [ok |-> FALSE, word |-> "", size |-> ""]
        ELSE LET kw == TypeKeywords[SetMin(hits)]
                 u  == MatchWS0(s, Len(kw))
                 j  == IF u < Len(s) /\ Ch(s, u) = "(" THEN IndexFrom(s, ")", u + 1) ELSE -1
             IN  [ok   |-> TRUE,
                  word |-> Slice(s, 0, Len(kw)),
                  size |-> IF j > u + 1 THEN Slice(s, u + 1, j) ELSE ""]

\* \b at offset p
WordBoundary(s, p) ==
    LET before == p > 0 /\ Ch(s, p - 1) \in WordSet
        after  == p < Len(s) /\ Ch(s, p) \in WordSet
    IN  before # after

\* notNullRegex.MatchString(s): (?i)\bNOT\s+NULL\b somewhere in s
notNullRegex(s) ==
    \E p \in 0..(Len(s) - 1) :
        LET e == MatchLit(s, MatchWS1(s, MatchLit(s, p, "NOT")), "NULL")
        IN  e >= 0 /\ WordBoundary(s, p) /\ WordBoundary(s, e)

(***************************************************************************)
(* Helpers of converter.go                                                 *)
(***************************************************************************)
\* normalizeWhitespace: every maximal run of \s becomes one space, that is,
\* a space character that follows a space character is dropped
RECURSIVE normalizeRange(_, _, _)
normalizeRange(s, lo, hi) ==
    IF lo > hi THEN ""
    ELSE IF lo = hi
         THEN (IF Ch(s, lo) \notin SpaceSet THEN Ch(s, lo)
               ELSE IF lo > 0 /\ Ch(s, lo - 1) \in SpaceSet THEN ""
               ELSE " ")
    ELSE normalizeRange(s, lo, (lo + hi) \div 2) \o normalizeRange(s, (lo + hi) \div 2 + 1, hi)

normalizeWhitespace(s) == normalizeRange(s, 0, Len(s) - 1)

\* the number of "(" less the number of ")" among s[lo:hi]
ParenBalance(s, lo, hi) ==
    Cardinality({j \in lo..(hi - 1) : Ch(s, j) = "("})
        - Cardinality({j \in lo..(hi - 1) : Ch(s, j) = ")"})

\* the loop stops at the first ")" at which count, 1 at start + 1, is back to 0
findMatchingParen(s, start) ==
    LET closes == {i \in (start + 1)..(Len(s) - 1) :
                      Ch(s, i) = ")" /\ 1 + ParenBalance(s, start + 1, i + 1) = 0}
    IN  IF closes = {} THEN -1 ELSE SetMin(closes)

\* a byte that is not part of a valid UTF-8 sequence is written # in this
\* module, and the replacement character U+FFFD is written ?
InvalidByte == "#"

ReplacementChar == "?"

\* what WriteRune(char) writes for the char that "for _, char := range s"
\* decodes at a character c of s: the loop decodes an invalid byte as U+FFFD
WriteRune(c) == IF c = InvalidByte THEN ReplacementChar ELSE c

\* a loop over the runes of s that writes each of them, by halves
RECURSIVE WriteRunes(_)
WriteRunes(s) ==
    IF Len(s) = 0 THEN ""
    ELSE IF Len(s) = 1 THEN WriteRune(s)
    ELSE WriteRunes(SubSeq(s, 1, Len(s) \div 2)) \o WriteRunes(SubSeq(s, Len(s) \div 2 + 1, Len(s)))

\* the loop with the "," case cutting whatever parenCount is
splitColumnsEveryComma(block) ==
    LET cuts  == {i \in 0..(Len(block) - 1) : Ch(block, i) = ","}
        parts == Pieces(block, Ascending(cuts, 0, Len(block) - 1))
        texts == [k \in DOMAIN parts |-> WriteRunes(parts[k])]
    IN  IF Len(texts[Len(texts)]) > 0 THEN texts ELSE SubSeq(texts, 1, Len(texts) - 1)

\* the loop without the "Add the last part" step after it
splitColumnsNoLastPart(block) ==
    LET cuts  == {i \in 0..(Len(block) - 1) :
                     Ch(block, i) = "," /\ ParenBalance(block, 0, i) = 0}
        parts == Pieces(block, Ascending(cuts, 0, Len(block) - 1))
        texts == [k \in DOMAIN parts |-> WriteRunes(parts[k])]
    IN  SubSeq(texts, 1, Len(texts) - 1)

\* the loop cuts at each "," it meets with parenCount = 0, parenCount being
\* the balance of the parentheses met so far, and writes every other rune to
\* the current clause; the text after the last cut is added when it is not
\* empty
splitColumns(block) ==
    LET cuts  == {i \in 0..(Len(block) - 1) :
                     Ch(block, i) = "," /\ ParenBalance(block, 0, i) = 0}
        parts == Pieces(block, Ascending(cuts, 0, Len(block) - 1))
        texts == [k \in DOMAIN parts |-> WriteRunes(parts[k])]
    IN  IF Len(texts[Len(texts)]) > 0 THEN texts ELSE SubSeq(texts, 1, Len(texts) - 1)

constraintKeywords ==
    <<"PRIMARY KEY", "FOREIGN KEY", "UNIQUE KEY", "KEY ", "INDEX ", "CONSTRAINT", "CHECK ">>

\* the keyword test on the line as written, without strings.ToUpper
isConstraintNoUpper(line) ==
    \E k \in 1..Len(constraintKeywords) : HasPrefix(line, constraintKeywords[k])

isConstraint(line) ==
    LET upperLine == ToUpper(line)
    IN  \E k \in 1..Len(constraintKeywords) : HasPrefix(upperLine, constraintKeywords[k])

\* the part with its first letter in upper case and the rest left as written
pascalPartKeepRest(part) ==
    IF Len(part) > 0
    THEN ToUpper(Slice(part, 0, 1)) \o (IF Len(part) > 1 THEN SliceFrom(part, 1) ELSE "")
    ELSE ""

pascalPart(part) ==
    IF Len(part) > 0
    THEN ToUpper(Slice(part, 0, 1)) \o (IF Len(part) > 1 THEN ToLower(SliceFrom(part, 1)) ELSE "")
    ELSE ""

RECURSIVE pascalJoin(_)
pascalJoin(parts) ==
    IF parts = <<>> THEN "" ELSE pascalPart(Head(parts)) \o pascalJoin(Tail(parts))

toPascalCase(s) == pascalJoin(Split(s, "_"))

\* the quoted-identifier branch of extractColumnName for the quote character q
quotedColumnName(line, q) ==
    LET end == Index(SliceFrom(line, 1), q)
    IN  IF end = -1 THEN [name |-> "", rest |-> ""]
        ELSE [name |-> Slice(line, 1, end + 1), rest |-> TrimSpace(SliceFrom(line, end + 2))]

extractColumnName(rawLine) ==
    LET line == TrimSpace(rawLine)
    IN  IF line = "" THEN [name |-> "", rest |-> ""]
        ELSE IF Ch(line, 0) = Backquote THEN quotedColumnName(line, Backquote)
        ELSE IF Ch(line, 0) = "\"" THEN quotedColumnName(line, "\"")
        ELSE LET parts == Fields(line)
             IN  IF Len(parts) < 2 THEN [name |-> "", rest |-> ""]
                 ELSE [name |-> parts[1], rest |-> Join(Tail(parts), " ")]

\* extractDataType without its special case for TINYINT(1)
extractDataTypeNoBool(definition) ==
    LET matches == typeRegex(definition)
    IN  IF matches.ok THEN ToUpper(matches.word) ELSE ""

extractDataType(definition) ==
    LET matches == typeRegex(definition)
    IN  IF matches.ok
        THEN LET dataType == ToUpper(matches.word)
             IN  IF dataType = "TINYINT" /\ matches.size = "1" THEN "TINYINT(1)" ELSE dataType
        ELSE ""

\* the result is the checked text, or a panic where a slice expression of
\* the function is out of range
removeCommentsAndDefaults(line0) ==
    LET upperLine == ToUpper(line0)
        cIdx == Index(upperLine, "COMMENT")
        line == IF cIdx # -1 THEN Slice(line0, 0, cIdx) ELSE line0
        dIdx == Index(upperLine, "DEFAULT")
    IN  IF dIdx = -1 THEN [panic |-> FALSE, text |-> TrimSpace(line)]
        ELSE IF ~SliceInRange(line, dIdx + 7, Len(line)) THEN [panic |-> TRUE, text |-> ""]
        ELSE LET rest == TrimSpace(SliceFrom(line, dIdx + 7))
             IN  IF Len(rest) > 0 /\ (Ch(rest, 0) = "'" \/ Ch(rest, 0) = "\"")
                 THEN LET endIdx == Index(SliceFrom(rest, 1), Ch(rest, 0))
                      IN  IF endIdx # -1
                          THEN [panic |-> FALSE,
                                text  |-> TrimSpace(Slice(line, 0, dIdx) \o SliceFrom(rest, endIdx + 2))]
                          ELSE [panic |-> FALSE, text |-> TrimSpace(Slice(line, 0, dIdx))]
                 ELSE IF Len(Fields(rest)) > 0
                      THEN [panic |-> FALSE, text |-> TrimSpace(Slice(line, 0, dIdx))]
                      ELSE [panic |-> FALSE, text |-> TrimSpace(line)]

\* the switch without its unsigned branches
baseTypeSignedOnly(sqlType, unsigned) ==
    IF sqlType \in {"TINYINT(1)", "BOOLEAN", "BOOL"} THEN "bool"
    ELSE IF sqlType = "TINYINT" THEN "int8"
    ELSE IF sqlType = "SMALLINT" THEN "int16"
    ELSE IF sqlType \in {"MEDIUMINT", "INT", "INTEGER"} THEN "int"
    ELSE IF sqlType = "BIGINT" THEN "int64"
    ELSE IF sqlType \in {"FLOAT", "DOUBLE", "DECIMAL", "NUMERIC"} THEN "float64"
    ELSE IF sqlType \in {"DATETIME", "TIMESTAMP", "DATE", "TIME"} THEN "time.Time"
    ELSE "string"

baseType(sqlType, unsigned) ==
    IF sqlType \in {"TINYINT(1)", "BOOLEAN", "BOOL"} THEN "bool"
    ELSE IF sqlType = "TINYINT" THEN (IF unsigned THEN "uint8" ELSE "int8")
    ELSE IF sqlType = "SMALLINT" THEN (IF unsigned THEN "uint16" ELSE "int16")
    ELSE IF sqlType \in {"MEDIUMINT", "INT", "INTEGER"} THEN (IF unsigned THEN "uint32" ELSE "int")
    ELSE IF sqlType = "BIGINT" THEN (IF unsigned THEN "uint64" ELSE "int64")
    ELSE IF sqlType \in {"FLOAT", "DOUBLE", "DECIMAL", "NUMERIC"} THEN "float64"
    ELSE IF sqlType \in {"CHAR", "VARCHAR", "TEXT", "TINYTEXT", "MEDIUMTEXT", "LONGTEXT", "JSON"}
         THEN "string"
    ELSE IF sqlType \in {"DATETIME", "TIMESTAMP", "DATE", "TIME"} THEN "time.Time"
    ELSE "string"

\* the switch without the early return of the BLOB case
mapSQLTypeToGoWrapAll(sqlType0, nullable, unsigned) ==
    LET sqlType == ToUpper(sqlType0)
        base == IF sqlType \in {"BLOB", "TINYBLOB", "MEDIUMBLOB", "LONGBLOB"} THEN "[]byte"
                ELSE baseType(sqlType, unsigned)
    IN  IF nullable THEN "*" \o base ELSE base

mapSQLTypeToGo(sqlType0, nullable, unsigned) ==
    LET sqlType == ToUpper(sqlType0)
    IN  IF sqlType \in {"BLOB", "TINYBLOB", "MEDIUMBLOB", "LONGBLOB"} THEN "[]byte"
        ELSE IF nullable THEN "*" \o baseType(sqlType, unsigned)
        ELSE baseType(sqlType, unsigned)

NoField == [Name |-> "", Type |-> "", ColumnName |-> ""]

\* the UNSIGNED test made on the text left by removeCommentsAndDefaults
\* instead of on restOfLine
parseColumnDefinitionUnsignedAfterStrip(line) ==
    LET col      == extractColumnName(TrimSpace(line))
        dataType == extractDataType(col.rest)
        checked  == removeCommentsAndDefaults(col.rest)
        isNullable == ~notNullRegex(checked.text)
        isUnsigned == Contains(ToUpper(checked.text), "UNSIGNED")
    IN  IF col.name = "" THEN [kind |-> "err", field |-> NoField]
        ELSE IF dataType = "" THEN [kind |-> "err", field |-> NoField]
        ELSE IF checked.panic THEN [kind |-> "panic", field |-> NoField]
        ELSE [kind  |-> "field",
              field |-> [Name       |-> toPascalCase(col.name),
                         Type       |-> mapSQLTypeToGo(dataType, isNullable, isUnsigned),
                         ColumnName |-> col.name]]

\* kind is "field" (a FieldDef and a nil error), "err" (an error) or "panic"
parseColumnDefinition(line) ==
    LET col      == extractColumnName(TrimSpace(line))
        dataType == extractDataType(col.rest)
        checked  == removeCommentsAndDefaults(col.rest)
        isNullable == ~notNullRegex(checked.text)
        isUnsigned == Contains(ToUpper(col.rest), "UNSIGNED")
    IN  IF col.name = "" THEN [kind |-> "err", field |-> NoField]
        ELSE IF dataType = "" THEN [kind |-> "err", field |-> NoField]
        ELSE IF checked.panic THEN [kind |-> "panic", field |-> NoField]
        ELSE [kind  |-> "field",
              field |-> [Name       |-> toPascalCase(col.name),
                         Type       |-> mapSQLTypeToGo(dataType, isNullable, isUnsigned),
                         ColumnName |-> col.name]]

(***************************************************************************)
(* Code generation                                                         *)
(***************************************************************************)
\* isLowerSnakeCase: no letter of A-Z occurs
isLowerSnakeCase(s) == \A i \in 0..(Len(s) - 1) : Ch(s, i) \notin UpperSet

\* the loop with the boundary test reduced to prevIsLower
snakeAtPrevLowerOnly(s, i) ==
    LET r == Ch(s, i)
        prevIsLower == Ch(s, i - 1) \in LowerSet
    IN  IF r \in UpperSet
        THEN (IF i > 0 /\ Ch(s, i - 1) # "_" /\ prevIsLower THEN "_" ELSE "")
             \o ToLowerCh(r)
        ELSE WriteRune(r)

\* what the loop of toSnakeCase writes for the character at offset i
snakeAt(s, i) ==
    LET r == Ch(s, i)
        prevIsLower == Ch(s, i - 1) \in LowerSet
        nextIsLower == i + 1 < Len(s) /\ Ch(s, i + 1) \in LowerSet
    IN  IF r \in UpperSet
        THEN (IF i > 0 /\ Ch(s, i - 1) # "_" /\ (prevIsLower \/ nextIsLower) THEN "_" ELSE "")
             \o ToLowerCh(r)
        ELSE WriteRune(r)

\* the loop of toSnakeCase over the offsets lo..hi-1, by halves
RECURSIVE snakeRange(_, _, _)
snakeRange(s, lo, hi) ==
    IF hi <= lo THEN ""
    ELSE IF hi = lo + 1 THEN snakeAt(s, lo)
    ELSE snakeRange(s, lo, (lo + hi) \div 2) \o snakeRange(s, (lo + hi) \div 2, hi)

\* the loop without the conversion to lower case (r written instead of r + 32)
snakeAtKeepCase(s, i) ==
    LET r == Ch(s, i)
        prevIsLower == Ch(s, i - 1) \in LowerSet
        nextIsLower == i + 1 < Len(s) /\ Ch(s, i + 1) \in LowerSet
    IN  IF r \in UpperSet
        THEN (IF i > 0 /\ Ch(s, i - 1) # "_" /\ (prevIsLower \/ nextIsLower) THEN "_" ELSE "")
             \o r
        ELSE WriteRune(r)

toSnakeCaseKeepCase(s) ==
    IF s = "" THEN s
    ELSE IF isLowerSnakeCase(s) THEN s
    ELSE Join([k \in 1..Len(s) |-> snakeAtKeepCase(s, k - 1)], "")

toSnakeCase(s) ==
    IF s = "" THEN s
    ELSE IF isLowerSnakeCase(s) THEN s
    ELSE snakeRange(s, 0, Len(s))

\* Config: the four tag switches
Configs ==
    [AddJSONTag : BOOLEAN, AddGormTag : BOOLEAN, AddXMLTag : BOOLEAN, AddDBTag : BOOLEAN]

\* the tags in the order db before gorm is swapped
generateStructTagsGormFirst(columnName, config) ==
    LET normalizedName == toSnakeCase(columnName)
        tags ==
            (IF config.AddJSONTag THEN <<"json:\"" \o normalizedName \o "\"">> ELSE <<>>)
            \o (IF config.AddGormTag THEN <<"gorm:\"column:" \o normalizedName \o "\"">> ELSE <<>>)
            \o (IF config.AddDBTag THEN <<"db:\"" \o normalizedName \o "\"">> ELSE <<>>)
            \o (IF config.AddXMLTag THEN <<"xml:\"" \o normalizedName \o "\"">> ELSE <<>>)
    IN  Join(tags, " ")

generateStructTags(columnName, config) ==
    LET normalizedName == toSnakeCase(columnName)
        tags ==
            (IF config.AddJSONTag THEN <<"json:\"" \o normalizedName \o "\"">> ELSE <<>>)
            \o (IF config.AddDBTag THEN <<"db:\"" \o normalizedName \o "\"">> ELSE <<>>)
            \o (IF config.AddGormTag THEN <<"gorm:\"column:" \o normalizedName \o "\"">> ELSE <<>>)
            \o (IF config.AddXMLTag THEN <<"xml:\"" \o normalizedName \o "\"">> ELSE <<>>)
    IN  Join(tags, " ")

\* the loop without its second comparison: maxTypeLen stays 0
calculateAlignmentNamesOnly(fs) ==
    [maxNameLen |-> SetMax({0} \cup {Len(fs[i].Name) : i \in DOMAIN fs}),
     maxTypeLen |-> 0]

\* calculateAlignment: the longest field name and the longest field type
calculateAlignment(fs) ==
    [maxNameLen |-> SetMax({0} \cup {Len(fs[i].Name) : i \in DOMAIN fs}),
     maxTypeLen |-> SetMax({0} \cup {Len(fs[i].Type) : i \in DOMAIN fs})]

\* strings.Repeat
RECURSIVE Repeat(_, _)
Repeat(s, count) == IF count <= 0 THEN "" ELSE s \o Repeat(s, count - 1)

\* the line generateStruct writes for one field
fieldLine(field, config, align) ==
    LET tags == generateStructTags(field.ColumnName, config)
    IN  "\t" \o field.Name \o Repeat(" ", align.maxNameLen - Len(field.Name) + 1)
        \o field.Type
        \o (IF tags # ""
            THEN Repeat(" ", align.maxTypeLen - Len(field.Type) + 1)
                 \o Backquote \o tags \o Backquote
            ELSE "")
        \o "\n"

generateStruct(def, config) ==
    LET align == calculateAlignment(def.Fields)
    IN  "type " \o def.Name \o " struct {\n"
        \o Join([i \in 1..Len(def.Fields) |-> fieldLine(def.Fields[i], config, align)], "")
        \o "}\n"

\* needsTimeImport without the loop over the records: the first record only
needsTimeImportFirstOnly(defs) ==
    Len(defs) > 0 /\ \E j \in DOMAIN defs[1].Fields : Contains(defs[1].Fields[j].Type, "time.Time")

needsTimeImport(defs) ==
    \E i \in DOMAIN defs : \E j \in DOMAIN defs[i].Fields :
        Contains(defs[i].Fields[j].Type, "time.Time")

\* the records written one after the other without the "\n" between them
GenerateGoCodeNoSeparator(defs, config) ==
    IF Len(defs) = 0 THEN ""
    ELSE "package main\n\n"
         \o (IF needsTimeImport(defs) THEN "import \"time\"\n\n" ELSE "")
         \o Join([i \in 1..Len(defs) |-> generateStruct(defs[i], config)], "")

GenerateGoCode(defs, config) ==
    IF Len(defs) = 0 THEN ""
    ELSE "package main\n\n"
         \o (IF needsTimeImport(defs) THEN "import \"time\"\n\n" ELSE "")
         \o Join([i \in 1..Len(defs) |-> generateStruct(defs[i], config)], "\n")

(***************************************************************************)
(* Inputs: a statement is a head (up to the opening parenthesis of the     *)
(* column block), a list of clauses joined by ", ", and a tail (from the   *)
(* closing parenthesis on).  Each part carries the facts about it that the *)
(* properties below refer to.                                              *)
(***************************************************************************)
MaxClauses == 3

\* pattern: the text holds CREATE TABLE [IF NOT EXISTS] <identifier> (
\* ident:   that identifier, quotes stripped
Heads ==
    << [text |-> "CREATE TABLE users (", pattern |-> TRUE, ident |-> "users"],
       [text |-> "create table if not exists ~order_items~ (", pattern |-> TRUE,
        ident |-> "order_items"],
       [text |-> "  CREATE\n\tTABLE  'T1'(", pattern |-> TRUE, ident |-> "T1"],
       [text |-> "Halo ini bukan SQL", pattern |-> FALSE, ident |-> ""],
       [text |-> "CREATE TABLE (", pattern |-> FALSE, ident |-> ""],
       [text |-> "CREATE TABLE users ", pattern |-> FALSE, ident |-> ""] >>

\* col:  a column clause (an identifier and a type of the vocabulary), not a
\*       constraint clause
\* nn:   the clause has a NOT NULL attribute, outside COMMENT and DEFAULT text
\* name: the column identifier, quotes stripped
Deck ==
    << [text |-> "id INT NOT NULL", col |-> TRUE, nn |-> TRUE, name |-> "id"],
       [text |-> "garbage", col |-> FALSE, nn |-> FALSE, name |-> ""],
       [text |-> "email VARCHAR(255)", col |-> TRUE, nn |-> FALSE, name |-> "email"],
       [text |-> "PRIMARY KEY (id)", col |-> FALSE, nn |-> FALSE, name |-> ""],
       [text |-> "tricky TEXT COMMENT 'NOT NULL'", col |-> TRUE, nn |-> FALSE, name |-> "tricky"],
       [text |-> "s VARCHAR(20) DEFAULT 'NOT NULL'", col |-> TRUE, nn |-> FALSE, name |-> "s"],
       [text |-> "KEY idx_a (a)", col |-> FALSE, nn |-> FALSE, name |-> ""],
       [text |-> "x INT DEFAULT 0 NOT NULL", col |-> TRUE, nn |-> TRUE, name |-> "x"],
       [text |-> "v VARCHAR(9) DEFAULT 'a' NOT NULL", col |-> TRUE, nn |-> TRUE, name |-> "v"],
       [text |-> "index date_idx (created)", col |-> FALSE, nn |-> FALSE, name |-> ""],
       [text |-> "q VARCHAR(20) DEFAULT 'it''s NOT NULL'", col |-> TRUE, nn |-> FALSE, name |-> "q"],
       [text |-> "key_id INT", col |-> TRUE, nn |-> FALSE, name |-> "key_id"],
       [text |-> "CONSTRAINT int_fk FOREIGN KEY (a) REFERENCES p(id)", col |-> FALSE,
        nn |-> FALSE, name |-> ""],
       [text |-> "b INT DEFAULT 0 COMMENT 'x'", col |-> TRUE, nn |-> FALSE, name |-> "b"],
       [text |-> "price DECIMAL(10,2) NOT NULL", col |-> TRUE, nn |-> TRUE, name |-> "price"],
       [text |-> "UNIQUE KEY u (email)", col |-> FALSE, nn |-> FALSE, name |-> ""],
       [text |-> "a INT COMMENT 'x' DEFAULT 0", col |-> TRUE, nn |-> FALSE, name |-> "a"],
       [text |-> "~order~ BIGINT UNSIGNED", col |-> TRUE, nn |-> FALSE, name |-> "order"],
       [text |-> "CHECK (price > 0)", col |-> FALSE, nn |-> FALSE, name |-> ""],
       [text |-> "n UUID", col |-> FALSE, nn |-> FALSE, name |-> ""],
       [text |-> "FOREIGN KEY (a) REFERENCES p(id)", col |-> FALSE, nn |-> FALSE, name |-> ""],
       [text |-> "checked_at DATETIME NOT NULL", col |-> TRUE, nn |-> TRUE, name |-> "checked_at"],
       [text |-> "~first  name~ VARCHAR(10)", col |-> TRUE, nn |-> FALSE, name |-> "first  name"],
       [text |-> "CreatedAt TIMESTAMP", col |-> TRUE, nn |-> FALSE, name |-> "CreatedAt"] >>

\* closed: the tail starts with the parenthesis that closes the column block
Tails ==
    << [text |-> ")", closed |-> TRUE],
       [text |-> ");", closed |-> TRUE],
       [text |-> ") ENGINE=InnoDB DEFAULT CHARSET=utf8mb4;", closed |-> TRUE],
       [text |-> ") CHARSET=utf8", closed |-> TRUE],
       [text |-> ") ROW_FORMAT=DYNAMIC", closed |-> TRUE],
       [text |-> ") ENGINE=MERGE UNION=(t1,t2);", closed |-> TRUE],
       [text |-> ") AS (SELECT sku, created_at date FROM src)", closed |-> TRUE],
       [text |-> "", closed |-> FALSE] >>

\* the n clauses of the deck from position k on, around the end
Window(k, n) == [i \in 1..n |-> Deck[((k + i - 2) % Len(Deck)) + 1]]

ClauseTexts(cs) == [i \in 1..Len(cs) |-> cs[i].text]

\* the text between the opening parenthesis of a head and a closing tail
BlockText(in) == Join(ClauseTexts(in.clauses), ", ")

StatementText(in) == in.head.text \o BlockText(in) \o in.tail.text

\* the statements of the documentation: the end-to-end scenario and the
\* request of the API usage example
ScenarioStatement ==
    [head    |-> Heads[1],
     clauses |-> << Deck[1],
                    [text |-> "name VARCHAR(255) NOT NULL", col |-> TRUE, nn |-> TRUE,
                     name |-> "name"],
                    Deck[3],
                    [text |-> "created_at DATETIME NOT NULL", col |-> TRUE, nn |-> TRUE,
                     name |-> "created_at"] >>,
     tail    |-> Tails[1]]

ApiExampleStatement ==
    [head    |-> Heads[1],
     clauses |-> << Deck[1],
                    [text |-> "name VARCHAR(255)", col |-> TRUE, nn |-> FALSE, name |-> "name"] >>,
     tail    |-> Tails[2]]

Examples == {ScenarioStatement, ApiExampleStatement}

\* configurations of a request: no tags, all tags, the API usage example's, json only
NoTags == [AddJSONTag |-> FALSE, AddGormTag |-> FALSE, AddXMLTag |-> FALSE, AddDBTag |-> FALSE]

AllTags == [AddJSONTag |-> TRUE, AddGormTag |-> TRUE, AddXMLTag |-> TRUE, AddDBTag |-> TRUE]

ApiExampleConfig ==
    [AddJSONTag |-> TRUE, AddGormTag |-> TRUE, AddXMLTag |-> FALSE, AddDBTag |-> TRUE]

JsonOnly == [AddJSONTag |-> TRUE, AddGormTag |-> FALSE, AddXMLTag |-> FALSE, AddDBTag |-> FALSE]

RequestConfigs == {NoTags, AllTags, ApiExampleConfig, JsonOnly}

(***************************************************************************)
(* ParseSQL, step by step                                                  *)
(***************************************************************************)
NoResult == [kind |-> "none", err |-> "", defs |-> <<>>]

Failure(msg) == [kind |-> "err", err |-> msg, defs |-> <<>>]

Panicked == [kind |-> "panic", err |-> "", defs |-> <<>>]

Success(defs) == [kind |-> "ok", err |-> "", defs |-> defs]

ErrNoTableName == "failed to extract table name from SQL"

ErrNoColumnBlock == "failed to extract column definitions"

ErrNoClosingParen == "failed to find closing parenthesis"

ErrNoValidColumns == "failed to parse columns: no valid columns found"

\* no call of GenerateGoCode yet
NoGen == [defs |-> <<>>, config |-> NoTags, code |-> ""]

\* the requests the server handles at the same time, each in its own
\* goroutine
MaxConns == 2

Conns == 1..MaxConns

NoBody == [form |-> "none", text |-> "", hasSql |-> FALSE, sql |-> "", config |-> NoTags]

NoRequest == [method |-> "", body |-> NoBody]

\* nothing written to the ResponseWriter
NoResponse == [status |-> 0, body |-> FALSE, code |-> "", error |-> ""]

IdleConn == [pc |-> "idle", request |-> NoRequest, response |-> NoResponse]

\* the local variables of a call of handleConvert and of the ParseSQL it
\* calls, before they are assigned
NewFrame ==
    [req |-> [SQL |-> "", Config |-> NoTags], parseCalls |-> 0, sql |-> "", tableName |-> "",
     columnBlock |-> "", result |-> NoResult]

\* the package-level variables, as MustCompile left them
CompiledPatterns ==
    [tableNameRegex |-> "compiled", columnBlockRegex |-> "compiled", typeRegex |-> "compiled",
     notNullRegex |-> "compiled"]

\* no request yet
ServerIdle ==
    /\ conns = [c \in Conns |-> IdleConn]
    /\ frames = [c \in Conns |-> NewFrame]
    /\ patterns = CompiledPatterns

Init ==
    /\ pc = "idle"
    /\ inp = [head |-> Heads[1], clauses |-> <<>>, tail |-> Tails[1]]
    /\ sql = ""
    /\ tableName = ""
    /\ columnBlock = ""
    /\ lines = <<>>
    /\ lineNo = 0
    /\ fields = <<>>
    /\ trace = <<>>
    /\ result = NoResult
    /\ gen = NoGen
    /\ fn = ""
    /\ arg = ""
    /\ out = ""
    /\ ServerIdle

\* ParseSQL is called with a statement: TrimSpace, then normalizeWhitespace
Call ==
    /\ pc = "idle"
    /\ \E h \in 1..Len(Heads), k \in 1..Len(Deck), n \in 0..MaxClauses, t \in 1..Len(Tails) :
          /\ h = 1 \/ k = 1
          /\ n > 0 \/ k = 1
          /\ \E in \in {[head |-> Heads[h], clauses |-> Window(k, n), tail |-> Tails[t]]}
                       \cup (IF h = 1 /\ k = 1 /\ n = 0 /\ t = 1 THEN Examples ELSE {}) :
                /\ inp' = in
                /\ sql' = normalizeWhitespace(TrimSpace(StatementText(in)))
    /\ pc' = "name"
    /\ UNCHANGED <<tableName, columnBlock, lines, lineNo, fields, trace, result>>
    /\ UNCHANGED <<gen, fn, arg, out, httpVars>>

ExtractTableName ==
    /\ pc = "name"
    /\ LET matches == tableNameRegex(sql)
       IN  IF ~matches.ok
           THEN /\ result' = Failure(ErrNoTableName)
                /\ pc' = "done"
                /\ UNCHANGED tableName
           ELSE /\ tableName' = matches.name
                /\ pc' = "block"
                /\ UNCHANGED result
    /\ UNCHANGED <<inp, sql, columnBlock, lines, lineNo, fields, trace>>
    /\ UNCHANGED <<gen, fn, arg, out, httpVars>>

\* the column block of the statement: what columnBlockRegex captures or,
\* without a match, the text from the first "(" to its matching ")"
columnBlockOf(text) ==
    LET columnMatches == columnBlockRegex(text)
        start == Index(text, "(")
        end   == findMatchingParen(text, start)
    IN  IF columnMatches.ok THEN [ok |-> TRUE, block |-> columnMatches.block, err |-> ""]
        ELSE IF start = -1 THEN [ok |-> FALSE, block |-> "", err |-> ErrNoColumnBlock]
        ELSE IF end = -1 THEN [ok |-> FALSE, block |-> "", err |-> ErrNoClosingParen]
        ELSE [ok |-> TRUE, block |-> Slice(text, start + 1, end), err |-> ""]

ExtractColumnBlock ==
    /\ pc = "block"
    /\ LET found == columnBlockOf(sql)
       IN  IF found.ok
           THEN /\ columnBlock' = found.block
                /\ pc' = "split"
                /\ UNCHANGED result
           ELSE /\ result' = Failure(found.err)
                /\ pc' = "done"
                /\ UNCHANGED columnBlock
    /\ UNCHANGED <<inp, sql, tableName, lines, lineNo, fields, trace>>
    /\ UNCHANGED <<gen, fn, arg, out, httpVars>>

\* parseColumns up to its loop
SplitBlock ==
    /\ pc = "split"
    /\ lines' = splitColumns(columnBlock)
    /\ lineNo' = 1
    /\ fields' = <<>>
    /\ pc' = "loop"
    /\ UNCHANGED <<inp, sql, tableName, columnBlock, trace, result>>
    /\ UNCHANGED <<gen, fn, arg, out, httpVars>>

\* what one iteration of the loop of parseColumns does with a line
lineOutcome(rawLine) ==
    LET line == TrimSpace(rawLine)
    IN  IF line = "" THEN [line |-> line, kind |-> "empty", field |-> NoField]
        ELSE IF isConstraint(line) THEN [line |-> line, kind |-> "constraint", field |-> NoField]
        ELSE LET parsed == parseColumnDefinition(line)
             IN  [line  |-> line,
                  kind  |-> IF parsed.kind = "err" THEN "skipped" ELSE parsed.kind,
                  field |-> parsed.field]

ParseLine ==
    /\ pc = "loop"
    /\ lineNo <= Len(lines)
    /\ LET outcome == lineOutcome(lines[lineNo])
       IN  /\ trace' = Append(trace, outcome)
           /\ fields' = IF outcome.kind = "field" THEN Append(fields, outcome.field) ELSE fields
           /\ IF outcome.kind = "panic"
              THEN /\ result' = Panicked
                   /\ pc' = "done"
                   /\ UNCHANGED lineNo
              ELSE /\ lineNo' = lineNo + 1
                   /\ UNCHANGED <<pc, result>>
    /\ UNCHANGED <<inp, sql, tableName, columnBlock, lines>>
    /\ UNCHANGED <<gen, fn, arg, out, httpVars>>

\* the end of parseColumns and of ParseSQL
Finish ==
    /\ pc = "loop"
    /\ lineNo > Len(lines)
    /\ result' = IF Len(fields) = 0
                 THEN Failure(ErrNoValidColumns)
                 ELSE Success(<<[Name |-> toPascalCase(tableName), Fields |-> fields]>>)
    /\ pc' = "done"
    /\ UNCHANGED <<inp, sql, tableName, columnBlock, lines, lineNo, fields, trace>>
    /\ UNCHANGED <<gen, fn, arg, out, httpVars>>

\* GenerateGoCode is called with the records ParseSQL returned, as the
\* handler and the library usage example do
Generate ==
    /\ pc = "done"
    /\ result.kind = "ok"
    /\ \E config \in RequestConfigs :
          gen' = [defs |-> result.defs, config |-> config,
                  code |-> GenerateGoCode(result.defs, config)]
    /\ pc' = "generated"
    /\ UNCHANGED <<parseVars, applyVars, httpVars>>

MaxRecords == 2

\* records a caller of the library may pass to GenerateGoCode
Records ==
    { [Name |-> "Users",
       Fields |-> << [Name |-> "Id", Type |-> "uint64", ColumnName |-> "id"],
                     [Name |-> "CreatedAt", Type |-> "*time.Time", ColumnName |-> "created_at"] >>],
      [Name |-> "Empty", Fields |-> <<>>],
      [Name |-> "Logs",
       Fields |-> << [Name |-> "Userid", Type |-> "*string", ColumnName |-> "UserID"] >>],
      [Name |-> "Files",
       Fields |-> << [Name |-> "Data", Type |-> "[]byte", ColumnName |-> "data"],
                     [Name |-> "At", Type |-> "time.Time", ColumnName |-> "AT"],
                     [Name |-> "Filename", Type |-> "string", ColumnName |-> "fileName"] >>] }

RECURSIVE RecordLists(_)
RecordLists(n) ==
    IF n = 0 THEN {<<>>}
    ELSE RecordLists(n - 1)
         \cup {Append(l, r) : l \in {x \in RecordLists(n - 1) : Len(x) = n - 1}, r \in Records}

\* GenerateGoCode is called by a user of the library with records of its own
GenerateBatch ==
    /\ pc = "idle"
    /\ \E defs \in RecordLists(MaxRecords), config \in Configs :
          gen' = [defs |-> defs, config |-> config, code |-> GenerateGoCode(defs, config)]
    /\ pc' = "generated"
    /\ UNCHANGED <<parseVars, applyVars, httpVars>>

Next ==
    \/ Call
    \/ ExtractTableName
    \/ ExtractColumnBlock
    \/ SplitBlock
    \/ ParseLine
    \/ Finish
    \/ Generate
    \/ GenerateBatch

Spec == Init /\ [][Next]_vars

(***************************************************************************)
(* ParseSQL as one function of its argument                                *)
(***************************************************************************)
\* the loop of parseColumns from line k on, fs being the fields so far
RECURSIVE parseLines(_, _, _)
parseLines(ls, k, fs) ==
    IF k > Len(ls)
    THEN (IF Len(fs) = 0 THEN [kind |-> "err", fields |-> <<>>] ELSE [kind |-> "ok", fields |-> fs])
    ELSE LET outcome == lineOutcome(ls[k])
         IN  IF outcome.kind = "panic" THEN [kind |-> "panic", fields |-> <<>>]
             ELSE parseLines(ls, k + 1,
                             IF outcome.kind = "field" THEN Append(fs, outcome.field) ELSE fs)

parseColumns(block) == parseLines(splitColumns(block), 1, <<>>)

\* the end of ParseSQL: what it returns for the table name and the outcome
\* of parseColumns
parseResult(name, columns) ==
    IF columns.kind = "panic" THEN Panicked
    ELSE IF columns.kind = "err" THEN Failure(ErrNoValidColumns)
    ELSE Success(<<[Name |-> toPascalCase(name), Fields |-> columns.fields]>>)

ParseSQL(text) ==
    LET clean   == normalizeWhitespace(TrimSpace(text))
        matches == tableNameRegex(clean)
        found   == columnBlockOf(clean)
    IN  IF ~matches.ok THEN Failure(ErrNoTableName)
        ELSE IF ~found.ok THEN Failure(found.err)
        ELSE parseResult(matches.name, parseColumns(found.block))

(***************************************************************************)
(* handleConvert, one goroutine per request                                *)
(***************************************************************************)
\* json.Unmarshal(body, &req): a JSON object gives its members, a missing
\* member leaving the zero value; any other body is an error
jsonUnmarshal(body) ==
    IF body.form = "json"
    THEN [ok  |-> TRUE,
          req |-> [SQL |-> IF body.hasSql THEN body.sql ELSE "", Config |-> body.config],
          err |-> ""]
    ELSE [ok  |-> FALSE,
          req |-> [SQL |-> "", Config |-> NoTags],
          err |-> IF body.form = "none" THEN "unexpected end of JSON input"
                  ELSE "invalid character 'i' looking for beginning of value"]

\* sendError: the status and a body with the error member only
sendError(message, statusCode) ==
    [status |-> statusCode, body |-> TRUE, code |-> "", error |-> message]

\* the success response: status 200 and a body with the code member only
sendCode(code) == [status |-> 200, body |-> TRUE, code |-> code, error |-> ""]

\* WriteHeader(200) and no body
PreflightResponse == [status |-> 200, body |-> FALSE, code |-> "", error |-> ""]

\* handleConvert up to the call of ParseSQL: the response it returns with,
\* or the decoded request it goes on with
validate(r) ==
    LET decoded == jsonUnmarshal(r.body)
        zero    == [SQL |-> "", Config |-> NoTags]
    IN  IF r.method = "OPTIONS"
        THEN [done |-> TRUE, response |-> PreflightResponse, req |-> zero]
        ELSE IF r.method # "POST"
        THEN [done |-> TRUE, response |-> sendError("Method not allowed", 405), req |-> zero]
        ELSE IF r.body.form = "unreadable"
        THEN [done |-> TRUE, response |-> sendError("Failed to read request body", 400),
              req |-> zero]
        ELSE IF ~decoded.ok
        THEN [done |-> TRUE, response |-> sendError("Invalid JSON: " \o decoded.err, 400),
              req |-> zero]
        ELSE IF TrimSpace(decoded.req.SQL) = ""
        THEN [done |-> TRUE, response |-> sendError("SQL cannot be empty", 400), req |-> zero]
        ELSE [done |-> FALSE, response |-> NoResponse, req |-> decoded.req]

\* handleConvert after the call of ParseSQL; a panic of ParseSQL ends the
\* goroutine of the request with nothing written
answer(parsed, config) ==
    IF parsed.kind = "panic" THEN NoResponse
    ELSE IF parsed.kind = "err" THEN sendError("SQL parsing error: " \o parsed.err, 400)
    ELSE sendCode(GenerateGoCode(parsed.defs, config))

handleConvert(r) ==
    LET checked == validate(r)
    IN  IF checked.done THEN checked.response
        ELSE answer(ParseSQL(checked.req.SQL), checked.req.Config)

\* the statements of the API tests and of a column with COMMENT before
\* DEFAULT
TestSuccessSQL == "CREATE TABLE users (id INT NOT NULL, name VARCHAR(255) NOT NULL)"

JsonBody(text, config) ==
    [form |-> "json", text |-> "", hasSql |-> TRUE, sql |-> text, config |-> config]

Post(body) == [method |-> "POST", body |-> body]

Requests ==
    { [method |-> "OPTIONS", body |-> NoBody],
      [method |-> "GET", body |-> NoBody],
      Post([form |-> "text", text |-> "invalid json", hasSql |-> FALSE, sql |-> "",
            config |-> NoTags]),
      Post([form |-> "unreadable", text |-> "", hasSql |-> FALSE, sql |-> "", config |-> NoTags]),
      Post([form |-> "json", text |-> "", hasSql |-> FALSE, sql |-> "", config |-> JsonOnly]),
      Post(JsonBody(" \n", JsonOnly)),
      Post(JsonBody("Halo ini bukan SQL", JsonOnly)),
      Post(JsonBody(TestSuccessSQL, JsonOnly)),
      Post(JsonBody("CREATE TABLE t (a INT COMMENT 'x' DEFAULT 0)", AllTags)) }

\* the local variables of the call that serves request c with all the calls
\* on the one frame
frameShared(c) == 1

\* the local variables of the call that serves request c: its own
frameOf(c) == c

HttpInit ==
    /\ pc = "serving"
    /\ inp = [head |-> Heads[1], clauses |-> <<>>, tail |-> Tails[1]]
    /\ sql = ""
    /\ tableName = ""
    /\ columnBlock = ""
    /\ lines = <<>>
    /\ lineNo = 0
    /\ fields = <<>>
    /\ trace = <<>>
    /\ result = NoResult
    /\ gen = NoGen
    /\ fn = ""
    /\ arg = ""
    /\ out = ""
    /\ ServerIdle

\* the server starts handleConvert for a request: the method, the body and
\* the SQL text are checked, in local variables of the call
Accept(c) ==
    /\ conns[c].pc = "idle"
    /\ \E r \in Requests :
          LET checked == validate(r)
          IN  IF checked.done
              THEN /\ conns' = [conns EXCEPT ![c] = [pc |-> "responded", request |-> r,
                                                     response |-> checked.response]]
                   /\ frames' = [frames EXCEPT ![frameOf(c)] = NewFrame]
              ELSE /\ conns' = [conns EXCEPT ![c] = [pc |-> "name", request |-> r,
                                                     response |-> NoResponse]]
                   /\ frames' = [frames EXCEPT ![frameOf(c)] =
                                    [NewFrame EXCEPT !.req = checked.req]]
    /\ UNCHANGED <<pc, parseVars, gen, applyVars, patterns>>

\* ParseSQL is called: the text is cleaned and the table name extracted
ParseName(c) ==
    /\ conns[c].pc = "name"
    /\ LET f       == frames[frameOf(c)]
           clean   == normalizeWhitespace(TrimSpace(f.req.SQL))
           matches == tableNameRegex(clean)
       IN  /\ frames' = [frames EXCEPT ![frameOf(c)] =
                            [f EXCEPT !.parseCalls = f.parseCalls + 1,
                                      !.sql = clean,
                                      !.tableName = matches.name,
                                      !.result = IF matches.ok THEN f.result
                                                 ELSE Failure(ErrNoTableName)]]
           /\ conns' = [conns EXCEPT ![c].pc = IF matches.ok THEN "block" ELSE "parsed"]
    /\ UNCHANGED <<pc, parseVars, gen, applyVars, patterns>>

ParseBlock(c) ==
    /\ conns[c].pc = "block"
    /\ LET f     == frames[frameOf(c)]
           found == columnBlockOf(f.sql)
       IN  /\ frames' = [frames EXCEPT ![frameOf(c)] =
                            [f EXCEPT !.columnBlock = found.block,
                                      !.result = IF found.ok THEN f.result ELSE Failure(found.err)]]
           /\ conns' = [conns EXCEPT ![c].pc = IF found.ok THEN "columns" ELSE "parsed"]
    /\ UNCHANGED <<pc, parseVars, gen, applyVars, patterns>>

\* parseColumns, and the return of ParseSQL
ParseColumns(c) ==
    /\ conns[c].pc = "columns"
    /\ LET f == frames[frameOf(c)]
       IN  frames' = [frames EXCEPT ![frameOf(c)].result =
                         parseResult(f.tableName, parseColumns(f.columnBlock))]
    /\ conns' = [conns EXCEPT ![c].pc = "parsed"]
    /\ UNCHANGED <<pc, parseVars, gen, applyVars, patterns>>

\* the end of handleConvert: the error of ParseSQL or the code of
\* GenerateGoCode is sent
Respond(c) ==
    /\ conns[c].pc = "parsed"
    /\ LET f == frames[frameOf(c)]
       IN  conns' = [conns EXCEPT ![c].pc = "responded",
                                  ![c].response = answer(f.result, f.req.Config)]
    /\ UNCHANGED <<pc, parseVars, gen, applyVars, frames, patterns>>

HttpNext ==
    \E c \in Conns :
        \/ Accept(c)
        \/ ParseName(c)
        \/ ParseBlock(c)
        \/ ParseColumns(c)
        \/ Respond(c)

HttpSpec == HttpInit /\ [][HttpNext]_vars

(***************************************************************************)
(* The pure functions of the package, each applied to one argument         *)
(***************************************************************************)
MaxLen == 4

\* the type names mapSQLTypeToGo is applied to: the vocabulary of typeRegex,
\* the boolean TINYINT(1), names in other letter cases and names outside the
\* vocabulary
SqlTypes ==
    {TypeKeywords[i] : i \in DOMAIN TypeKeywords}
        \cup {"TINYINT(1)", "bigint", "Blob", "UUID", "SERIAL"}

MapArgs == [sqlType : SqlTypes, nullable : BOOLEAN, unsigned : BOOLEAN]

IdentChars == {"a", "B", "_"}

RECURSIVE IdentsOfLen(_)
IdentsOfLen(n) ==
    IF n = 0 THEN {""} ELSE {c \o x : c \in IdentChars, x \in IdentsOfLen(n - 1)}

\* identifiers: every text of at most MaxLen characters, and named ones
Idents ==
    UNION {IdentsOfLen(n) : n \in 0..MaxLen}
        \cup {"user_id", "a_b_c_d", "UserID", "UserId", "USER_ID", "_id_", "created__at",
              "HTTPServer", "x1_y2", "ID", "userID"}

BlockChars == {"a", ",", "(", ")"}

RECURSIVE BlocksOfLen(_)
BlocksOfLen(n) ==
    IF n = 0 THEN {""} ELSE {c \o x : c \in BlockChars, x \in BlocksOfLen(n - 1)}

\* column blocks: every text of at most MaxLen characters, and named ones
Blocks ==
    UNION {BlocksOfLen(n) : n \in 0..MaxLen}
        \cup {"id INT, price DECIMAL(10,2) NOT NULL, status ENUM('a','b')",
              "id INT NOT NULL,",
              "a INT,, b INT",
              "a INT), b INT, c INT",
              "a INT) ENGINE=MERGE UNION=(t1,t2",
              "n INT COMMENT 'caf#', m INT",
              " "}

\* a keyword as it may be written: upper case, lower case, mixed
LetterCases(kw) ==
    {kw, ToLower(kw), Slice(kw, 0, 1) \o ToLower(SliceFrom(kw, 1)),
     ToLower(Slice(kw, 0, 1)) \o SliceFrom(kw, 1)}

\* what may follow the type keyword: nothing or a parenthesised size
SizeTexts == {"", "(1)", " (1)", "( 1 )", "(10)", "(11)", "(10,2)", "(1,0)"}

\* column clauses of a type keyword, a size and UNSIGNED or nothing
TypeClauses ==
    [name : {"n"},
     word : UNION {LetterCases(TypeKeywords[i]) : i \in DOMAIN TypeKeywords},
     size : SizeTexts,
     rest : {"", " UNSIGNED", " unsigned"}]

\* column clauses with the letters UNSIGNED in several places of the tail,
\* or nowhere
SignClauses ==
    [name : {"n", "~unsigned~"},
     word : {"INT", "BIGINT", "smallint", "TINYINT", "MEDIUMINT", "Integer", "VARCHAR", "DOUBLE"},
     size : {"", "(11)"},
     rest : {" UNSIGNED NOT NULL", " NOT NULL", " Unsigned ZEROFILL", " NOT NULL COMMENT 'unsigned'",
             " DEFAULT 'unsigned'", " COMMENT 'signed' NOT NULL", " DEFAULT 0 UNSIGNED",
             " UN SIGNED", " NOT NULL AUTO_INCREMENT"}]

\* the text of a clause: the name as written, then the tail
ClauseTail(c) == c.word \o c.size \o c.rest

ClauseText(c) == c.name \o " " \o ClauseTail(c)

FnInit ==
    /\ pc = "apply"
    /\ inp = [head |-> Heads[1], clauses |-> <<>>, tail |-> Tails[1]]
    /\ sql = ""
    /\ tableName = ""
    /\ columnBlock = ""
    /\ lines = <<>>
    /\ lineNo = 0
    /\ fields = <<>>
    /\ trace = <<>>
    /\ result = NoResult
    /\ gen = NoGen
    /\ \/ fn = "mapSQLTypeToGo" /\ arg \in MapArgs
       \/ fn \in {"toPascalCase", "toSnakeCase"} /\ arg \in Idents
       \/ fn = "splitColumns" /\ arg \in Blocks
       \/ fn = "parseColumnDefinition" /\ arg \in TypeClauses \cup SignClauses
    /\ out = ""
    /\ ServerIdle

ApplyMapSQLTypeToGo ==
    /\ pc = "apply"
    /\ fn = "mapSQLTypeToGo"
    /\ out' = mapSQLTypeToGo(arg.sqlType, arg.nullable, arg.unsigned)
    /\ pc' = "applied"
    /\ UNCHANGED <<parseVars, gen, fn, arg, httpVars>>

\* once: the result; twice: the function applied to its own result
ApplyToPascalCase ==
    /\ pc = "apply"
    /\ fn = "toPascalCase"
    /\ out' = [once |-> toPascalCase(arg), twice |-> toPascalCase(toPascalCase(arg))]
    /\ pc' = "applied"
    /\ UNCHANGED <<parseVars, gen, fn, arg, httpVars>>

ApplyToSnakeCase ==
    /\ pc = "apply"
    /\ fn = "toSnakeCase"
    /\ out' = [once |-> toSnakeCase(arg), twice |-> toSnakeCase(toSnakeCase(arg))]
    /\ pc' = "applied"
    /\ UNCHANGED <<parseVars, gen, fn, arg, httpVars>>

ApplySplitColumns ==
    /\ pc = "apply"
    /\ fn = "splitColumns"
    /\ out' = splitColumns(arg)
    /\ pc' = "applied"
    /\ UNCHANGED <<parseVars, gen, fn, arg, httpVars>>

ApplyParseColumnDefinition ==
    /\ pc = "apply"
    /\ fn = "parseColumnDefinition"
    /\ out' = parseColumnDefinition(ClauseText(arg))
    /\ pc' = "applied"
    /\ UNCHANGED <<parseVars, gen, fn, arg, httpVars>>

FnNext ==
    \/ ApplyMapSQLTypeToGo
    \/ ApplyToPascalCase
    \/ ApplyToSnakeCase
    \/ ApplySplitColumns
    \/ ApplyParseColumnDefinition

FnSpec == FnInit /\ [][FnNext]_vars

(***************************************************************************)
(* Properties of ParseSQL                                                  *)
(***************************************************************************)
Done == pc = "done"

ErrorMessages == {ErrNoTableName, ErrNoColumnBlock, ErrNoClosingParen, ErrNoValidColumns}

\* the statement has the CREATE TABLE pattern and a closing parenthesis
WellFormed(in) == in.head.pattern /\ in.tail.closed

\* the column clauses of a statement, in order
ColumnClauses(in) == SelectSeq(in.clauses, LAMBDA c : c.col)

ClauseNames(cs) == [i \in 1..Len(cs) |-> cs[i].name]

FieldColumns(fs) == [i \in 1..Len(fs) |-> fs[i].ColumnName]

IsPointer(goType) == HasPrefix(goType, "*")

\* the trace entries that parsed the text of clause c
EntriesOf(c) == {i \in DOMAIN trace : trace[i].line = c.text}

\* parseColumns ran to its end or to a fault
ColumnsParsed ==
    Done /\ (result.kind = "err" => result.err = ErrNoValidColumns)

\* C1: ParseSQL either fails with one of its error values and no record, or
\* returns exactly one record with at least one field; in particular a clause
\* with COMMENT and DEFAULT in either order ends in no runtime fault.
C1_RecordOrError ==
    Done =>
        \/ result.kind = "err" /\ result.err \in ErrorMessages /\ result.defs = <<>>
        \/ /\ result.kind = "ok"
           /\ Len(result.defs) = 1
           /\ Len(result.defs[1].Fields) >= 1

\* C2: a column clause whose only NOT NULL text lies inside a COMMENT text
\* or a quoted DEFAULT value yields a nullable (pointer) field, and a column
\* clause with a NOT NULL attribute and neither COMMENT nor DEFAULT yields a
\* non-nullable field.
C2_NotNullOnlyAsAttribute ==
    Done /\ WellFormed(inp) =>
        \A k \in DOMAIN inp.clauses :
            LET c == inp.clauses[k]
                hidden == c.col /\ ~c.nn /\ Contains(c.text, "NOT NULL")
                plain  == /\ c.col /\ c.nn
                          /\ ~Contains(c.text, "COMMENT")
                          /\ ~Contains(c.text, "DEFAULT")
            IN  \A i \in EntriesOf(c) :
                    /\ hidden => trace[i].kind = "field" /\ IsPointer(trace[i].field.Type)
                    /\ plain  => trace[i].kind = "field" /\ ~IsPointer(trace[i].field.Type)

\* C3: a NOT NULL attribute written after a DEFAULT clause, quoted or
\* unquoted, is still seen: the column is non-nullable.
C3_NotNullAfterDefault ==
    Done /\ WellFormed(inp) =>
        \A k \in DOMAIN inp.clauses :
            LET c == inp.clauses[k]
            IN  c.col /\ c.nn /\ Contains(c.text, "DEFAULT") =>
                    \A i \in EntriesOf(c) :
                        trace[i].kind = "field" /\ ~IsPointer(trace[i].field.Type)

\* C4: for a well-formed statement with at least one column clause ParseSQL
\* returns exactly one record, and its fields are the column clauses of the
\* statement, one each, in their order (stated for the calls that return,
\* the fault of C1 left aside).
C4_OneFieldPerColumnClause ==
    Done /\ result # Panicked /\ WellFormed(inp) /\ Len(ColumnClauses(inp)) > 0 =>
        /\ result.kind = "ok"
        /\ Len(result.defs) = 1
        /\ FieldColumns(result.defs[1].Fields) = ClauseNames(ColumnClauses(inp))

\* C5: the block handed to column parsing is the text between the "(" after
\* the table name and its matching ")".
C5_BlockIsParenthesisedRegion ==
    pc = "split" /\ WellFormed(inp) => columnBlock = BlockText(inp)

\* C6: text after the closing parenthesis of the column block never yields
\* a field: every field of the record comes from a column clause of the block.
C6_NoFieldFromTableOptions ==
    Done /\ WellFormed(inp) /\ Len(ColumnClauses(inp)) > 0 /\ result.kind = "ok" =>
        \A i \in DOMAIN result.defs[1].Fields :
            \E k \in DOMAIN inp.clauses :
                /\ inp.clauses[k].col
                /\ inp.clauses[k].name = result.defs[1].Fields[i].ColumnName

\* C7: when the "(" that opens the column block has no matching ")",
\* ParseSQL fails with the closing-parenthesis error (stated for the calls
\* that return, the fault of C1 left aside).
C7_UnclosedBlockFails ==
    Done /\ result # Panicked /\ inp.head.pattern /\ ~inp.tail.closed =>
        result = Failure(ErrNoClosingParen)

\* C8: the table-name error is reported exactly when the text lacks the
\* pattern CREATE TABLE [IF NOT EXISTS] <identifier>; otherwise the table
\* name is that identifier and a returned record is named toPascalCase of it.
C8_TableNameOrError ==
    Done =>
        /\ result = Failure(ErrNoTableName) <=> ~inp.head.pattern
        /\ inp.head.pattern => tableName = inp.head.ident
        /\ result.kind = "ok" => result.defs[1].Name = toPascalCase(inp.head.ident)

\* a lower-case statement with IF NOT EXISTS and a quoted table name was parsed
C8_Witness ==
    /\ Done
    /\ inp.head = Heads[2]
    /\ tableName = "order_items"
    /\ result.kind = "ok"
    /\ result.defs[1].Name = "OrderItems"

\* a line of the block that parseColumns turns into a field: not empty, not
\* a constraint, with an identifier and a type of the vocabulary
IsColumnLine(rawLine) ==
    LET line == TrimSpace(rawLine)
    IN  /\ line # ""
        /\ ~isConstraint(line)
        /\ extractColumnName(line).name # ""
        /\ extractDataType(extractColumnName(line).rest) # ""

ColumnLines == SelectSeq(lines, IsColumnLine)

\* C9: a clause without identifier or known type is skipped and never
\* aborts the parse; the no-valid-columns error is returned exactly when no
\* clause of the block yields a field, and otherwise every clause with an
\* identifier and a known type has its field in the record.
C9_SkipNeverAborts ==
    ColumnsParsed =>
        /\ result.kind \in {"ok", "err"}
        /\ result = Failure(ErrNoValidColumns) <=> Len(ColumnLines) = 0
        /\ result.kind = "ok" =>
               FieldColumns(result.defs[1].Fields) =
                   [i \in 1..Len(ColumnLines) |->
                       extractColumnName(TrimSpace(ColumnLines[i])).name]

StatedKeywords ==
    {"PRIMARY KEY", "FOREIGN KEY", "UNIQUE KEY", "KEY", "INDEX", "CONSTRAINT", "CHECK"}

CodedKeywords ==
    {"PRIMARY KEY", "FOREIGN KEY", "UNIQUE KEY", "KEY ", "INDEX ", "CONSTRAINT", "CHECK "}

BeginsWith(line, words) == \E w \in words : HasPrefix(ToUpper(line), w)

\* C10 (as stated): no clause that begins, in any letter case, with PRIMARY
\* KEY, FOREIGN KEY, UNIQUE KEY, KEY, INDEX, CONSTRAINT or CHECK produces a
\* field of the returned record.
C10_KeywordPrefixNeverField ==
    Done /\ result.kind = "ok" =>
        \A i \in DOMAIN trace :
            BeginsWith(trace[i].line, StatedKeywords) => trace[i].kind # "field"

\* C10 (amended): no clause that begins, in any letter case, with PRIMARY
\* KEY, FOREIGN KEY, UNIQUE KEY or CONSTRAINT, or with KEY, INDEX or CHECK
\* followed by a space, produces a field of the returned record.
C10_ConstraintClauseNeverField ==
    \A i \in DOMAIN trace :
        BeginsWith(trace[i].line, CodedKeywords) => trace[i].kind = "constraint"

\* a lower-case index clause was passed over in a statement that parsed
C10_Witness ==
    /\ Done
    /\ result.kind = "ok"
    /\ \E i \in DOMAIN trace :
           /\ trace[i].line = "index date_idx (created)"
           /\ trace[i].kind = "constraint"

(***************************************************************************)
(* Properties of the type mapping                                          *)
(***************************************************************************)
Applied(name) == pc = "applied" /\ fn = name

BlobTypes == {"BLOB", "TINYBLOB", "MEDIUMBLOB", "LONGBLOB"}

\* the types of the vocabulary that have a base type in the table
TableTypes == ({TypeKeywords[i] : i \in DOMAIN TypeKeywords} \cup {"TINYINT(1)"}) \ BlobTypes

IntegerBits(t) ==
    IF t = "TINYINT" THEN "8"
    ELSE IF t = "SMALLINT" THEN "16"
    ELSE IF t \in {"MEDIUMINT", "INT", "INTEGER"} THEN "32"
    ELSE IF t = "BIGINT" THEN "64"
    ELSE ""

\* the table with every integer type named by its width
TableBySize(t, unsigned) ==
    IF t \in {"TINYINT(1)", "BOOLEAN", "BOOL"} THEN "bool"
    ELSE IF IntegerBits(t) # "" THEN (IF unsigned THEN "uint" ELSE "int") \o IntegerBits(t)
    ELSE IF t \in {"FLOAT", "DOUBLE", "DECIMAL", "NUMERIC"} THEN "float64"
    ELSE IF t \in {"DATETIME", "TIMESTAMP", "DATE", "TIME"} THEN "time.Time"
    ELSE "string"

\* the same table with the signed MEDIUMINT/INT/INTEGER as Go's int
TableWithInt(t, unsigned) ==
    IF t \in {"MEDIUMINT", "INT", "INTEGER"} /\ ~unsigned THEN "int" ELSE TableBySize(t, unsigned)

Unwrapped(goType) == IF HasPrefix(goType, "*") THEN SliceFrom(goType, 1) ELSE goType

\* C11 (as stated): for every type of the vocabulary mapSQLTypeToGo returns
\* the base type of the table, MEDIUMINT/INT/INTEGER being a 32-bit integer,
\* signed or unsigned by the flag.
C11_BaseTypeBySize ==
    Applied("mapSQLTypeToGo") /\ arg.sqlType \in TableTypes =>
        Unwrapped(out) = TableBySize(arg.sqlType, arg.unsigned)

\* C11 (amended): for every type of the vocabulary mapSQLTypeToGo returns the
\* base type of the table, where MEDIUMINT/INT/INTEGER is int when signed and
\* uint32 when unsigned; the unsigned flag changes nothing for the types that
\* are not integers and for TINYINT(1).
C11_BaseTypeTable ==
    Applied("mapSQLTypeToGo") /\ arg.sqlType \in TableTypes =>
        /\ Unwrapped(out) = TableWithInt(arg.sqlType, arg.unsigned)
        /\ IntegerBits(arg.sqlType) = "" =>
               out = mapSQLTypeToGo(arg.sqlType, arg.nullable, ~arg.unsigned)

\* an unsigned nullable INT was mapped
C11_Witness ==
    /\ Applied("mapSQLTypeToGo")
    /\ arg = [sqlType |-> "INT", nullable |-> TRUE, unsigned |-> TRUE]
    /\ out = "*uint32"

\* C12: a nullable type is "*" followed by the type for nullable = false,
\* except the BLOB types, which are "[]byte" either way; no type has two
\* leading "*".
C12_NullableWrapping ==
    Applied("mapSQLTypeToGo") =>
        LET plain == mapSQLTypeToGo(arg.sqlType, FALSE, arg.unsigned)
        IN  /\ ToUpper(arg.sqlType) \in BlobTypes => out = "[]byte"
            /\ ToUpper(arg.sqlType) \notin BlobTypes =>
                   /\ ~HasPrefix(plain, "*")
                   /\ out = (IF arg.nullable THEN "*" \o plain ELSE plain)
            /\ ~HasPrefix(out, "**")

\* a nullable BLOB column type was mapped
C12_Witness ==
    /\ Applied("mapSQLTypeToGo")
    /\ arg.sqlType = "MEDIUMBLOB"
    /\ arg.nullable
    /\ out = "[]byte"

(***************************************************************************)
(* Properties of the fields                                                *)
(***************************************************************************)
\* clauses of the deck whose type word is outside the vocabulary of typeRegex
UnknownTypeLines == {"n UUID"}

\* C13: a column whose type word is not in the vocabulary falls back to the
\* string type: its clause yields a field of type string, or *string when
\* nullable, and is not dropped.
C13_UnknownTypeIsString ==
    \A i \in DOMAIN trace :
        trace[i].line \in UnknownTypeLines =>
            /\ trace[i].kind = "field"
            /\ trace[i].field.Type \in {"string", "*string"}

\* the block is the column list of the statement, up to its whitespace
BlockAsWritten == columnBlock = normalizeWhitespace(BlockText(inp))

\* C14: the ColumnName of every returned field is the identifier of a column
\* clause exactly as written there (a backtick or double-quote pair around
\* it removed, nothing else changed), and Name is toPascalCase(ColumnName).
C14_ColumnNameAsWritten ==
    Done /\ result.kind = "ok" /\ WellFormed(inp) /\ BlockAsWritten =>
        \A i \in DOMAIN result.defs[1].Fields :
            LET f == result.defs[1].Fields[i]
            IN  /\ \E k \in DOMAIN inp.clauses :
                       inp.clauses[k].col /\ inp.clauses[k].name = f.ColumnName
                /\ f.Name = toPascalCase(f.ColumnName)

(***************************************************************************)
(* Properties of the name conversions                                      *)
(***************************************************************************)
\* the non-empty segments of x between its underscores
Segments(x) == SelectSeq(Split(x, "_"), NonEmpty)

Capitalized(p) == ToUpper(Slice(p, 0, 1)) \o ToLower(SliceFrom(p, 1))

\* what C15 says of the first application: the segments, each capitalized
\* and lower-cased after its first character, with no trace of underscores
PascalOfSegments(x, once) ==
    /\ once = Join([i \in 1..Len(Segments(x)) |-> Capitalized(Segments(x)[i])], "")
    /\ ~Contains(once, "_")
    /\ x = "user_id" => once = "UserId"
    /\ x = "a_b_c_d" => once = "ABCD"
    /\ x = "_id_" => once = "Id"
    /\ x = "created__at" => once = "CreatedAt"

C16_SnakeIdempotent ==
    Applied("toSnakeCase") =>
        /\ out.twice = out.once
        /\ (\A i \in 0..(Len(arg) - 1) : Ch(arg, i) \notin UpperSet) => out.once = arg
        /\ arg = "UserID" => out.once = "user_id"

\* a name with a run of capitals was converted
C16_Witness ==
    /\ Applied("toSnakeCase")
    /\ arg = "UserID"
    /\ out = [once |-> "user_id", twice |-> "user_id"]

(***************************************************************************)
(* Properties of GenerateGoCode                                            *)
(***************************************************************************)
Generated == pc = "generated"

\* the lines of a text; the last one is what follows the final line break
LinesOf(code) == Split(code, "\n")

\* the positions of the lines that open a type declaration, in order
TypeLinesIn(ls) == SelectSeq([j \in 1..Len(ls) |-> j], LAMBDA j : HasPrefix(ls[j], "type "))

HasTimeField(defs) ==
    \E i \in DOMAIN defs : \E j \in DOMAIN defs[i].Fields :
        defs[i].Fields[j].Type \in {"time.Time", "*time.Time"}

\* C17: GenerateGoCode returns the empty text for an empty record list; a
\* record without fields is written as its opening line followed at once by
\* the closing brace; the records are written in input order, each but the
\* first after exactly one blank line.
C17_GenerateShape ==
    Generated =>
        LET ls == LinesOf(gen.code)
            at == TypeLinesIn(ls)
            blank == {j \in 1..(Len(ls) - 1) : ls[j] = ""}
        IN  /\ Len(gen.defs) = 0 => gen.code = ""
            /\ Len(gen.defs) > 0 =>
                  /\ Len(at) = Len(gen.defs)
                  /\ \A i \in DOMAIN gen.defs :
                        /\ ls[at[i]] = "type " \o gen.defs[i].Name \o " struct {"
                        /\ ls[at[i] + Len(gen.defs[i].Fields) + 1] = "}"
                        /\ i > 1 => ls[at[i] - 1] = "" /\ ls[at[i] - 2] = "}"
                  /\ Cardinality(blank) =
                         Len(gen.defs) + (IF HasTimeField(gen.defs) THEN 1 ELSE 0)
                  /\ ls[Len(ls)] = ""

\* a record without fields was written before another record
C17_Witness ==
    /\ Generated
    /\ Len(gen.defs) = 2
    /\ gen.defs[1].Fields = <<>>
    /\ gen.defs[2].Fields # <<>>
    /\ HasPrefix(gen.code, "package main\n\nimport \"time\"\n\ntype Empty struct {\n}\n\ntype ")

\* the tag families of a configuration in the order json, db, gorm, xml,
\* each with the value v
TagsInOrder(v, config) ==
    Join(SelectSeq(<< IF config.AddJSONTag THEN "json:\"" \o v \o "\"" ELSE "",
                      IF config.AddDBTag THEN "db:\"" \o v \o "\"" ELSE "",
                      IF config.AddGormTag THEN "gorm:\"column:" \o v \o "\"" ELSE "",
                      IF config.AddXMLTag THEN "xml:\"" \o v \o "\"" ELSE "" >>, NonEmpty), " ")

HasSuffix(s, suffix) ==
    Len(suffix) <= Len(s) /\ SliceFrom(s, Len(s) - Len(suffix)) = suffix

\* the line is a tab, the field name, padding, the type and, when block is
\* not empty, padding and the block
IsFieldLine(line, f, block) ==
    LET front == Slice(line, 0, Len(line) - Len(block))
    IN  /\ HasPrefix(line, "\t" \o f.Name \o " ")
        /\ HasSuffix(line, block)
        /\ HasSuffix(TrimSpace(front), " " \o f.Type)
        /\ block = "" => front = "\t" \o TrimSpace(front)
        /\ block # "" => HasSuffix(front, " ")

\* C18: the line of every field ends with the tag block of the enabled
\* families, in the order json, db, gorm, xml, each with the value
\* toSnakeCase(ColumnName) and one space between them; with no family
\* enabled the line has no backtick and ends with the type.
C18_TagBlock ==
    Generated =>
        LET ls == LinesOf(gen.code)
            at == TypeLinesIn(ls)
        IN  /\ Len(at) = Len(gen.defs)
            /\ \A i \in DOMAIN gen.defs : \A j \in DOMAIN gen.defs[i].Fields :
                  LET f    == gen.defs[i].Fields[j]
                      tags == TagsInOrder(toSnakeCase(f.ColumnName), gen.config)
                  IN  IF gen.config = NoTags
                      THEN IsFieldLine(ls[at[i] + j], f, "") /\ ~Contains(ls[at[i] + j], Backquote)
                      ELSE IsFieldLine(ls[at[i] + j], f, Backquote \o tags \o Backquote)

\* a mixed-case column name was tagged with all four families
C18_Witness ==
    /\ Generated
    /\ gen.config = AllTags
    /\ Contains(gen.code, "Userid *string ~json:\"user_id\" db:\"user_id\" "
                              \o "gorm:\"column:user_id\" xml:\"user_id\"~\n")

\* the record ParseSQL is to return for the end-to-end scenario
ScenarioRecord ==
    [Name |-> "Users",
     Fields |-> << [Name |-> "Id", Type |-> "int", ColumnName |-> "id"],
                   [Name |-> "Name", Type |-> "string", ColumnName |-> "name"],
                   [Name |-> "Email", Type |-> "*string", ColumnName |-> "email"],
                   [Name |-> "CreatedAt", Type |-> "time.Time", ColumnName |-> "created_at"] >>]

\* C19: for a non-empty record list the code starts with "package main" and
\* has the line import "time" once when some field of some record is of
\* type time.Time or *time.Time, and not at all otherwise; for the
\* end-to-end scenario the record is Users with Id int, Name string, Email
\* *string, CreatedAt time.Time, and the code has the import line.
C19_TimeImport ==
    Generated /\ Len(gen.defs) > 0 =>
        LET ls == LinesOf(gen.code)
            imports == {j \in 1..Len(ls) : ls[j] = "import \"time\""}
        IN  /\ ls[1] = "package main"
            /\ Cardinality(imports) = (IF HasTimeField(gen.defs) THEN 1 ELSE 0)
            /\ inp = ScenarioStatement =>
                   gen.defs = <<ScenarioRecord>> /\ imports = {3}

\* the end-to-end scenario was converted with all tag flags off
C19_Witness ==
    /\ Generated
    /\ inp = ScenarioStatement
    /\ gen.config = NoTags
    /\ gen.defs = <<ScenarioRecord>>
    /\ HasPrefix(gen.code, "package main\n\nimport \"time\"\n\ntype Users struct {\n")

\* the code of the API usage example of the documentation
ApiExampleCode ==
    "package main\n\ntype Users struct {\n"
    \o "\tId   int    ~json:\"id\" db:\"id\" gorm:\"column:id\"~\n"
    \o "\tName string ~json:\"name\" db:\"name\" gorm:\"column:name\"~\n"
    \o "}\n"

\* C20: the statement of the API usage example, converted with the json,
\* gorm and db tags on and the xml tag off, gives exactly the code the
\* documentation shows.
C20_ApiExample ==
    Generated /\ inp = ApiExampleStatement /\ gen.config = ApiExampleConfig =>
        gen.code = ApiExampleCode

(***************************************************************************)
(* Properties of splitColumns                                              *)
(***************************************************************************)
\* the commas of s that stand at parenthesis depth 0 counted from its start
TopLevelCommas(s) == {i \in 0..(Len(s) - 1) : Ch(s, i) = "," /\ ParenBalance(s, 0, i) = 0}

\* the commas of s that stand at another depth, above or below 0
NestedCommas(s) == {i \in 0..(Len(s) - 1) : Ch(s, i) = "," /\ ParenBalance(s, 0, i) # 0}

CommaCount(s) == Cardinality({i \in 0..(Len(s) - 1) : Ch(s, i) = ","})

RECURSIVE SumOf(_)
SumOf(ns) == IF ns = <<>> THEN 0 ELSE Head(ns) + SumOf(Tail(ns))

\* the block ends with a comma at depth 0: no clause follows it
EndsAtCut(s) == Len(s) > 0 /\ (Len(s) - 1) \in TopLevelCommas(s)

EndsWithComma(s) == Len(s) > 0 /\ Ch(s, Len(s) - 1) = ","

ValidUTF8(s) == InvalidByte \notin CharsOf(s)

\* the text of s with U+FFFD in the place of each invalid byte
Decoded(s) ==
    Join([i \in 1..Len(s) |->
             IF SubSeq(s, i, i) = InvalidByte THEN ReplacementChar ELSE SubSeq(s, i, i)], "")

DecimalEnumBlock == "id INT, price DECIMAL(10,2) NOT NULL, status ENUM('a','b')"

\* C23: splitColumns cuts the block at exactly its commas at parenthesis
\* depth 0: no clause holds a comma at depth 0, every clause that a comma
\* ends is balanced, the clauses joined by "," give the block in its order
\* (less a final comma at depth 0), a last clause without a comma after it is
\* returned, and DECIMAL(10,2) and ENUM('a','b') stay whole.
C23_SplitAtTopLevelCommas ==
    Applied("splitColumns") =>
        /\ \A k \in DOMAIN out : TopLevelCommas(out[k]) = {}
        /\ \A k \in DOMAIN out :
               (k < Len(out) \/ EndsAtCut(arg)) => ParenBalance(out[k], 0, Len(out[k])) = 0
        /\ Decoded(arg) = Join(out, ",") \o (IF EndsAtCut(arg) THEN "," ELSE "")
        /\ Len(out) = Cardinality(TopLevelCommas(arg))
                          + (IF EndsAtCut(arg) \/ arg = "" THEN 0 ELSE 1)
        /\ arg = DecimalEnumBlock =>
               out = <<"id INT", " price DECIMAL(10,2) NOT NULL", " status ENUM('a','b')">>

\* the block with DECIMAL(10,2) and ENUM('a','b') was split in three
C23_Witness ==
    /\ Applied("splitColumns")
    /\ arg = DecimalEnumBlock
    /\ Len(out) = 3
    /\ out[2] = " price DECIMAL(10,2) NOT NULL"

\* the commas inside the returned clauses
CommasKept(clauses) == SumOf([k \in DOMAIN clauses |-> CommaCount(clauses[k])])

\* C29 (as stated): for every block that does not end with a comma, the
\* returned clauses joined by "," are the block exactly, and the commas at a
\* depth other than 0, above or below, are all inside the clauses.
C29_JoinIsBlock ==
    Applied("splitColumns") /\ ~EndsWithComma(arg) =>
        /\ Join(out, ",") = arg
        /\ CommasKept(out) = Cardinality(NestedCommas(arg))

\* C29 (amended): for every block that does not end with a comma, the
\* returned clauses joined by "," are the block with U+FFFD in the place of
\* each byte that is not valid UTF-8, hence the block exactly when it is
\* valid UTF-8; the commas at a depth other than 0, above or below, are all
\* inside the clauses.
C29_JoinIsDecodedBlock ==
    Applied("splitColumns") /\ ~EndsWithComma(arg) =>
        /\ Join(out, ",") = Decoded(arg)
        /\ ValidUTF8(arg) => Join(out, ",") = arg
        /\ CommasKept(out) = Cardinality(NestedCommas(arg))

\* after an unmatched ")" the commas were kept: the block came back as one
\* clause
C29_Witness ==
    /\ Applied("splitColumns")
    /\ arg = "a INT), b INT, c INT"
    /\ NestedCommas(arg) # {}
    /\ out = <<arg>>

(***************************************************************************)
(* Properties of the type of a column                                      *)
(***************************************************************************)
\* the size argument of a size text: what stands between its parentheses
SizeArgument(size) ==
    IF size = "" THEN "" ELSE Slice(TrimSpace(size), 1, Len(TrimSpace(size)) - 1)

\* the row of the type table for keyword kw written with the size text size
RowKey(kw, size) == IF kw = "TINYINT" /\ SizeArgument(size) = "1" THEN "TINYINT(1)" ELSE kw

\* the type of the row, wrapped as a nullable column's type is
NullableRow(key, unsigned) ==
    IF key \in BlobTypes THEN "[]byte" ELSE "*" \o TableWithInt(key, unsigned)

\* C24: for a tail that is a keyword of the vocabulary in any letter case,
\* then a parenthesised size or nothing, then UNSIGNED or nothing, the type
\* of the column is the row of that keyword (not of a shorter keyword that
\* begins it), TINYINT being the boolean row exactly when the size argument
\* is exactly 1 and the 8-bit integer row otherwise.
C24_RowOfKeyword ==
    Applied("parseColumnDefinition") /\ arg \in TypeClauses =>
        LET kw == ToUpper(arg.word)
        IN  /\ out.kind = "field"
            /\ out.field.Type = NullableRow(RowKey(kw, arg.size), arg.rest # "")
            /\ kw = "TINYINT" =>
                   /\ SizeArgument(arg.size) = "1" <=> out.field.Type = "*bool"
                   /\ SizeArgument(arg.size) # "1" <=> out.field.Type \in {"*int8", "*uint8"}
            /\ kw \in {"INTEGER", "DATETIME", "TIMESTAMP", "BOOLEAN"} =>
                   out.field.Type = NullableRow(kw, arg.rest # "")

\* a lower-case tinyint with a size of 1 inside spaces was parsed as an
\* 8-bit integer, not as a boolean
C24_Witness ==
    /\ Applied("parseColumnDefinition")
    /\ arg \in TypeClauses
    /\ arg.word = "tinyint"
    /\ arg.size = "( 1 )"
    /\ arg.rest = " unsigned"
    /\ out.field.Type = "*uint8"

\* the columns whose type has a signed and an unsigned row
IntegerWords == {"TINYINT", "SMALLINT", "MEDIUMINT", "INT", "INTEGER", "BIGINT"}

\* C25: the type of an integer column is the unsigned row exactly when the
\* letters UNSIGNED, in any letter case, occur somewhere in the tail of the
\* clause as written, COMMENT and DEFAULT text included; n INT UNSIGNED NOT
\* NULL is uint32 and n BIGINT unsigned is *uint64.
C25_UnsignedAnywhereInTail ==
    Applied("parseColumnDefinition") /\ out.kind = "field" =>
        LET kw       == ToUpper(arg.word)
            unsigned == Contains(ToUpper(ClauseTail(arg)), "UNSIGNED")
        IN  /\ kw \in IntegerWords /\ RowKey(kw, arg.size) # "TINYINT(1)" =>
                   /\ HasPrefix(Unwrapped(out.field.Type), "uint") <=> unsigned
                   /\ Unwrapped(out.field.Type) = TableWithInt(kw, unsigned)
            /\ ClauseText(arg) = "n INT UNSIGNED NOT NULL" => out.field.Type = "uint32"
            /\ ClauseText(arg) = "n BIGINT unsigned" => out.field.Type = "*uint64"

\* an integer column with the word only in its COMMENT text was typed
\* unsigned
C25_Witness ==
    /\ Applied("parseColumnDefinition")
    /\ ClauseText(arg) = "n INT NOT NULL COMMENT 'unsigned'"
    /\ out.kind = "field"
    /\ out.field.Type = "uint32"

(***************************************************************************)
(* Properties of toSnakeCase on names with upper-case letters              *)
(***************************************************************************)
HasUpper(x) == \E i \in 0..(Len(x) - 1) : Ch(x, i) \in UpperSet

\* an upper-case letter at offset i > 0 whose previous character is not "_"
\* and that has a lower-case letter before or after it
CamelBoundary(x, i) ==
    /\ i > 0
    /\ Ch(x, i) \in UpperSet
    /\ Ch(x, i - 1) # "_"
    /\ \/ Ch(x, i - 1) \in LowerSet
       \/ i + 1 < Len(x) /\ Ch(x, i + 1) \in LowerSet

\* the characters of x in order, each A-Z in lower case, with "_" before
\* the boundaries
SnakeOf(x) ==
    Join([k \in 1..Len(x) |->
             (IF CamelBoundary(x, k - 1) THEN "_" ELSE "") \o ToLower(Ch(x, k - 1))], "")

\* C26: for an input with an upper-case letter toSnakeCase writes the
\* characters in order, each A-Z in lower case, with "_" before an
\* upper-case letter exactly at the boundaries; HTTPServer gives
\* http_server, USER_ID gives user_id, ID gives id, and the output has no
\* upper-case letter.
C26_SnakeBoundaries ==
    Applied("toSnakeCase") /\ HasUpper(arg) =>
        /\ out.once = SnakeOf(arg)
        /\ Len(out.once) = Len(arg) + Cardinality({i \in 0..(Len(arg) - 1) : CamelBoundary(arg, i)})
        /\ ~HasUpper(out.once)
        /\ arg = "HTTPServer" => out.once = "http_server"
        /\ arg = "USER_ID" => out.once = "user_id"
        /\ arg = "ID" => out.once = "id"
        /\ arg = "userID" => out.once = "user_id"

\* an acronym followed by a word was split before the word only
C26_Witness ==
    /\ Applied("toSnakeCase")
    /\ arg = "HTTPServer"
    /\ out.once = "http_server"

(***************************************************************************)
(* Properties of the layout of a record                                    *)
(***************************************************************************)
AllSpaces(s) == \A i \in 0..(Len(s) - 1) : Ch(s, i) = " "

LongestName(fs) == SetMax({Len(fs[j].Name) : j \in DOMAIN fs})

LongestType(fs) == SetMax({Len(fs[j].Type) : j \in DOMAIN fs})

\* the line is a tab, the name, spaces up to offset typeCol, the type and,
\* with tags, spaces up to offset tagCol and a block between backticks
IsAlignedLine(line, f, typeCol, tagCol, tagged) ==
    /\ HasPrefix(line, "\t" \o f.Name)
    /\ 1 + Len(f.Name) < typeCol
    /\ AllSpaces(Slice(line, 1 + Len(f.Name), typeCol))
    /\ HasPrefixAt(line, typeCol, f.Type)
    /\ IF tagged
       THEN /\ typeCol + Len(f.Type) < tagCol
            /\ AllSpaces(Slice(line, typeCol + Len(f.Type), tagCol))
            /\ Ch(line, tagCol) = Backquote
            /\ Ch(line, Len(line) - 1) = Backquote
       ELSE Len(line) = typeCol + Len(f.Type)

\* C27: in the text of a record with at least one field there is one line
\* per field, in the record's order; each is a tab, the name padded to the
\* longest name length + 1, then the type, so every type starts at the same
\* offset, and with tags enabled every tag block starts at the same offset,
\* the longest type length + 1 after the offset of the types.
C27_AlignedColumns ==
    Generated =>
        LET ls == LinesOf(gen.code)
            at == TypeLinesIn(ls)
        IN  /\ Len(at) = Len(gen.defs)
            /\ \A i \in DOMAIN gen.defs :
                  LET fs == gen.defs[i].Fields
                  IN  Len(fs) >= 1 =>
                          LET typeCol == 1 + LongestName(fs) + 1
                              tagCol  == typeCol + LongestType(fs) + 1
                          IN  /\ ls[at[i] + Len(fs) + 1] = "}"
                              /\ \A j \in DOMAIN fs :
                                    IsAlignedLine(ls[at[i] + j], fs[j], typeCol, tagCol,
                                                  gen.config # NoTags)

\* a record whose names and types differ in length was written with tags
C27_Witness ==
    /\ Generated
    /\ gen.config = JsonOnly
    /\ Contains(gen.code, "\tData     []byte    ~json:\"data\"~\n"
                              \o "\tAt       time.Time ~json:\"at\"~\n"
                              \o "\tFilename string    ~json:\"file_name\"~\n")

(***************************************************************************)
(* Properties of the failures of ParseSQL                                  *)
(***************************************************************************)
\* the call is past the extraction of the table name
NameFound == pc \in {"block", "split", "loop"} \/ (Done /\ result.err # ErrNoTableName)

\* the call ended before parseColumns was entered
EndedBeforeColumns == Done /\ result.kind = "err" /\ lineNo = 0

\* C28: ParseSQL never returns the error "failed to extract column
\* definitions": once the table name is found the text holds a "(", and a
\* call that fails after that and before the columns are parsed fails with
\* "failed to find closing parenthesis".
C28_NoColumnBlockErrorUnreachable ==
    /\ Done => result.err # ErrNoColumnBlock
    /\ NameFound => Contains(sql, "(") /\ tableName # ""
    /\ EndedBeforeColumns /\ NameFound => result.err = ErrNoClosingParen

\* a statement with a table name and an unclosed column block failed
C28_Witness ==
    /\ EndedBeforeColumns
    /\ NameFound
    /\ result.err = ErrNoClosingParen

(***************************************************************************)
(* Properties of the server                                                *)
(***************************************************************************)
Responded(c) == conns[c].pc = "responded"

\* the call of ParseSQL for request c has returned
Parsed(c) == conns[c].pc \in {"parsed", "responded"} /\ frames[c].parseCalls > 0

\* every finished call has the result of the same call run alone, and the
\* patterns are as compiled
ResultsAsAlone ==
    /\ \A c \in Conns :
          /\ Parsed(c) => frames[c].result = ParseSQL(frames[c].req.SQL)
          /\ Responded(c) => conns[c].response = handleConvert(conns[c].request)
    /\ patterns = CompiledPatterns

\* a step belongs to one request and leaves the request, the response and
\* the local variables of every other one, and the patterns, as they are
StepOfOneCall ==
    /\ \E c \in Conns : \A d \in Conns \ {c} : conns'[d] = conns[d] /\ frames'[d] = frames[d]
    /\ patterns' = patterns

\* C21: ParseSQL and GenerateGoCode keep no state across calls: however the
\* steps of concurrent requests interleave, each call returns what it
\* returns when run alone, and no step changes the package-level patterns
\* or the variables and records of another call.
C21_CallsAreIndependent == [](ResultsAsAlone) /\ [][StepOfOneCall]_vars

\* two requests with different statements are inside ParseSQL at once, and
\* the first one's table name is already extracted
C21_Witness ==
    /\ conns[1].pc = "columns"
    /\ conns[2].pc = "block"
    /\ frames[1].sql # frames[2].sql
    /\ frames[1].columnBlock # ""
    /\ frames[2].columnBlock = ""

\* C22: handleConvert answers OPTIONS with 200 and no body, any other
\* method but POST with 405, an undecodable body with 400, a blank SQL text
\* with 400, an error of ParseSQL with 400 and "SQL parsing error: " before
\* its message, and everything else with 200 and the generated code;
\* ParseSQL is called only when the earlier checks passed; a 400 or 405
\* body has an error and no code, a 200 body of a POST a code and no error.
C22_ResponseOrder ==
    \A c \in Conns :
        LET r       == conns[c].request
            resp    == conns[c].response
            decoded == jsonUnmarshal(r.body)
            blank   == TrimSpace(decoded.req.SQL) = ""
            parsed  == ParseSQL(decoded.req.SQL)
        IN  /\ frames[c].parseCalls > 0 =>
                   /\ frames[c].parseCalls = 1
                   /\ r.method = "POST" /\ r.body.form # "unreadable" /\ decoded.ok /\ ~blank
            /\ Responded(c) =>
                   /\ IF r.method = "OPTIONS" THEN resp.status = 200 /\ ~resp.body
                      ELSE IF r.method # "POST" THEN resp.status = 405
                      ELSE IF r.body.form = "unreadable" \/ ~decoded.ok THEN resp.status = 400
                      ELSE IF blank THEN resp.status = 400
                      ELSE IF parsed.kind = "err"
                      THEN resp.status = 400 /\ resp.error = "SQL parsing error: " \o parsed.err
                      ELSE resp.status = 200 /\ resp.code = GenerateGoCode(parsed.defs, decoded.req.Config)
                   /\ resp.status \in {400, 405} => resp.body /\ resp.error # "" /\ resp.code = ""
                   /\ resp.status = 200 /\ r.method = "POST" =>
                          resp.body /\ resp.code # "" /\ resp.error = ""
====
